---- MODULE Spec2Model ----
(***************************************************************************)
(* Model of the qBittorrent "intelligent" search plugins: the query        *)
(* cleaners, the keyword scorer and the multi-pass search() of leetx,      *)
(* x1337xtube, torrentgalaxy_one, bitsearch, torrentproject, piratebay and *)
(* yts_mx.                                                                 *)
(* A Python str is a sequence of one-character strings.                    *)
(***************************************************************************)
EXTENDS Integers, Sequences, FiniteSets, TLC

(***************************************************************************)
(* Characters and the character classes the regular expressions use.       *)
(***************************************************************************)
UpperSeq == <<"A","B","C","D","E","F","G","H","I","J","K","L","M",
              "N","O","P","Q","R","S","T","U","V","W","X","Y","Z">>
LowerSeq == <<"a","b","c","d","e","f","g","h","i","j","k","l","m",
              "n","o","p","q","r","s","t","u","v","w","x","y","z">>
Digits == {"0","1","2","3","4","5","6","7","8","9"}
Uppers == {UpperSeq[i] : i \in 1..Len(UpperSeq)}
Lowers == {LowerSeq[i] : i \in 1..Len(LowerSeq)}

\* \s of the re module, on the characters the model uses
IsSpace(c) == c \in {" ", "\t"}
\* \d
IsDigit(c) == c \in Digits
\* [a-zA-Z0-9]
IsAlnum(c) == c \in Digits \cup Uppers \cup Lowers

\* str.lower() on one character
LowerChar(c) ==
    IF c \in Uppers
    THEN LowerSeq[CHOOSE i \in 1..Len(UpperSeq) : UpperSeq[i] = c]
    ELSE c

\* str.lower()
Lower(s) == [i \in 1..Len(s) |-> LowerChar(s[i])]

\* YearAt with the character classes cut to the parentheses: \(\d{4}\)
YearAtParensOnly(s, i) ==
    /\ i + 5 <= Len(s)
    /\ s[i] = "("
    /\ \A k \in 1..4 : IsDigit(s[i + k])
    /\ s[i + 5] = ")"

\* does [\(\[]\d{4}[\)\]] match s at index i
YearAt(s, i) ==
    /\ i + 5 <= Len(s)
    /\ s[i] \in {"(", "["}
    /\ \A k \in 1..4 : IsDigit(s[i + k])
    /\ s[i + 5] \in {")", "]"}

RECURSIVE SubYearFrom(_, _)
\* re.sub(r'[\(\[]\d{4}[\)\]]', '', s): one left-to-right scan, the matches
\* found in the ORIGINAL text are removed, the result is not rescanned
SubYearFrom(s, i) ==
    IF i > Len(s) THEN <<>>
    ELSE IF YearAt(s, i) THEN SubYearFrom(s, i + 6)
    ELSE <<s[i]>> \o SubYearFrom(s, i + 1)

SubYear(s) == SubYearFrom(s, 1)

RECURSIVE CollapseRange(_, _, _)
\* re.sub(r'\s+', ' ', s) on s[lo..hi]: every maximal run of whitespace
\* becomes one space (the range is halved, the halves are joined)
CollapseRange(s, lo, hi) ==
    IF lo > hi THEN <<>>
    ELSE IF lo = hi
    THEN IF IsSpace(s[lo])
         THEN (IF lo > 1 /\ IsSpace(s[lo - 1]) THEN <<>> ELSE <<" ">>)
         ELSE <<s[lo]>>
    ELSE CollapseRange(s, lo, (lo + hi) \div 2)
         \o CollapseRange(s, (lo + hi) \div 2 + 1, hi)

CollapseSpaces(s) == CollapseRange(s, 1, Len(s))

\* str.strip()
Strip(s) ==
    LET idx == {i \in 1..Len(s) : ~IsSpace(s[i])}
    IN  IF idx = {} THEN <<>>
        ELSE SubSeq(s, CHOOSE i \in idx : \A j \in idx : i <= j,
                       CHOOSE i \in idx : \A j \in idx : i >= j)

\* re.sub(r'[^a-zA-Z0-9\s]', ' ', s)
SubSymbols(s) ==
    [i \in 1..Len(s) |-> IF IsAlnum(s[i]) \/ IsSpace(s[i]) THEN s[i] ELSE " "]

\* re.sub(r'[^a-zA-Z0-9]', ' ', s)
SubNonAlnum(s) == [i \in 1..Len(s) |-> IF IsAlnum(s[i]) THEN s[i] ELSE " "]

\* the index of the last character of the run of non-whitespace that
\* starts at i
WordEnd(s, i) ==
    CHOOSE j \in i..Len(s) :
        /\ \A k \in i..j : ~IsSpace(s[k])
        /\ j = Len(s) \/ IsSpace(s[j + 1])

RECURSIVE SplitRange(_, _, _)
\* str.split(): the maximal runs of non-whitespace that start in s[lo..hi],
\* in order
SplitRange(s, lo, hi) ==
    IF lo > hi THEN <<>>
    ELSE IF lo = hi
    THEN IF ~IsSpace(s[lo]) /\ (lo = 1 \/ IsSpace(s[lo - 1]))
         THEN <<SubSeq(s, lo, WordEnd(s, lo))>>
         ELSE <<>>
    ELSE SplitRange(s, lo, (lo + hi) \div 2)
         \o SplitRange(s, (lo + hi) \div 2 + 1, hi)

Split(s) == SplitRange(s, 1, Len(s))

(***************************************************************************)
(* QueryNormalizer: the cleaners and the keyword extraction.               *)
(***************************************************************************)
\* _get_conservative_query / _clean_conservative_query / _clean_query_conservative
ConservativeQuery(query) == Strip(CollapseSpaces(SubYear(query)))

\* AggressiveQuery with the final strip() dropped
AggressiveQueryNoStrip(query) == CollapseSpaces(SubSymbols(query))

\* _get_aggressive_query / _clean_aggressive_query / _clean_query_aggressive
AggressiveQuery(query) == Strip(CollapseSpaces(SubSymbols(query)))

\* KeepWord with the floor one higher: len(word) > 2
KeepWordLonger(word) == Len(word) > 2

\* the length test of the keyword list comprehension: len(word) > 1
KeepWord(word) == Len(word) > 1

\* [word for word in words if len(word) > 1]
KeepWords(words) == SelectSeq(words, KeepWord)

\* _get_keywords_for_scoring / _get_scoring_keywords / _get_search_keywords
KeywordsForScoring(query) ==
    KeepWords(Split(Lower(Strip(CollapseSpaces(SubNonAlnum(query))))))

(***************************************************************************)
(* RelevanceScorer.                                                        *)
(***************************************************************************)
\* the literal 100 of bonus_score
COMPLETENESS_BONUS == 100

Min(a, b) == IF a < b THEN a ELSE b

\* collections.Counter(words): word -> number of occurrences
Counter(words) ==
    [w \in {words[i] : i \in 1..Len(words)} |->
        Cardinality({i \in 1..Len(words) : words[i] = w})]

\* counts.get(word, 0)
CounterGet(counts, word) == IF word \in DOMAIN counts THEN counts[word] ELSE 0

RECURSIVE BaseScoreUncapped(_, _, _)
\* BaseScore with the min() dropped: base_score += count_in_title
BaseScoreUncapped(todo, search_word_counts, title_word_counts) ==
    IF todo = {} THEN 0
    ELSE LET word == CHOOSE w \in todo : TRUE
         IN  CounterGet(title_word_counts, word)
             + BaseScoreUncapped(todo \ {word}, search_word_counts, title_word_counts)

RECURSIVE BaseScore(_, _, _)
\* the term-frequency loop over search_word_counts.items():
\* base_score += min(count_in_search, count_in_title)
BaseScore(todo, search_word_counts, title_word_counts) ==
    IF todo = {} THEN 0
    ELSE LET word == CHOOSE w \in todo : TRUE
         IN  Min(search_word_counts[word], CounterGet(title_word_counts, word))
             + BaseScore(todo \ {word}, search_word_counts, title_word_counts)

\* bonus_score of leetx, x1337xtube, bitsearch and torrentproject:
\* unique_search_words and all(word in title_word_counts ...)
BonusScore(unique_search_words, title_word_counts) ==
    IF /\ unique_search_words # {}
       /\ \A word \in unique_search_words : word \in DOMAIN title_word_counts
    THEN COMPLETENESS_BONUS
    ELSE 0

\* _calculate_advanced_score (leetx, x1337xtube, bitsearch), _calculate_score
\* (torrentproject)
CalculateAdvancedScore(torrent_title, search_keywords) ==
    LET title_lower == Lower(torrent_title)
        title_keywords == KeywordsForScoring(title_lower)
        title_word_counts == Counter(title_keywords)
        search_word_counts == Counter(search_keywords)
        unique_search_words == {search_keywords[i] : i \in 1..Len(search_keywords)}
    IN  BonusScore(unique_search_words, title_word_counts)
        + BaseScore(DOMAIN search_word_counts, search_word_counts, title_word_counts)

\* _calculate_relevance_score (torrentgalaxy_one): the bonus tests
\* all(word in title_counts for word in search_keywords), with no emptiness test
CalculateRelevanceScore(torrent_title, search_keywords) ==
    LET title_lower == Lower(torrent_title)
        title_keywords == KeywordsForScoring(title_lower)
        title_counts == Counter(title_keywords)
        search_counts == Counter(search_keywords)
        bonus == IF \A i \in 1..Len(search_keywords) :
                        search_keywords[i] \in DOMAIN title_counts
                 THEN COMPLETENESS_BONUS
                 ELSE 0
    IN  bonus + BaseScore(DOMAIN search_counts, search_counts, title_counts)

(***************************************************************************)
(* The engines and their settings.                                         *)
(***************************************************************************)
PoolEngines == {"leetx", "x1337xtube", "torrentgalaxy_one"}
LoopEngines == {"bitsearch", "torrentproject"}
HtmlEngines == PoolEngines \cup LoopEngines
ApiEngines == {"piratebay", "yts_mx"}
Engines == HtmlEngines \cup ApiEngines

\* the scorer each search() calls
Score(eng, torrent_title, search_keywords) ==
    IF eng = "torrentgalaxy_one"
    THEN CalculateRelevanceScore(torrent_title, search_keywords)
    ELSE CalculateAdvancedScore(torrent_title, search_keywords)

\* SAFETY_NET_RESULTS_COUNT
SAFETY_NET_DEFAULT == 5
SAFETY_NET_BITSEARCH == 8
SAFETY_NET_RESULTS_COUNT(eng) ==
    IF eng = "bitsearch" THEN SAFETY_NET_BITSEARCH ELSE SAFETY_NET_DEFAULT

\* MAX_MAGNET_WORKERS
MAX_MAGNET_WORKERS == 10

\* MAX_PAGES_TO_FETCH, and torrentgalaxy_one's MOVIES_PAGES, TV_PAGES, DEFAULT_PAGES
MAX_PAGES_DEFAULT == 2
MAX_PAGES_LOOP == 3
MOVIES_PAGES == 3
TV_PAGES == 4

\* PagesOf with the default budget for every plugin and category
PagesOfDefault(eng, category) == 1..MAX_PAGES_DEFAULT

\* the page numbers one pass requests: range(1, n + 1), torrentproject range(0, 3)
PagesOf(eng, category) ==
    CASE eng = "torrentgalaxy_one" ->
           (IF category = "movies" THEN 1..MOVIES_PAGES
            ELSE IF category = "tv" THEN 1..TV_PAGES
            ELSE 1..MAX_PAGES_DEFAULT)
      [] eng = "bitsearch" -> 1..MAX_PAGES_LOOP
      [] eng = "torrentproject" -> 0..(MAX_PAGES_LOOP - 1)
      [] OTHER -> 1..MAX_PAGES_DEFAULT

\* the keys of supported_categories
SupportedCategories(eng) ==
    CASE eng = "torrentproject" -> {"all"}
      [] eng = "piratebay" -> {"all", "music", "movies", "games", "software"}
      [] eng = "torrentgalaxy_one" ->
           {"all", "movies", "tv", "music", "games", "software", "anime", "books", "other"}
      [] OTHER -> {"all", "movies", "tv", "music", "games", "software", "anime"}

(***************************************************************************)
(* Numbers as text.                                                        *)
(***************************************************************************)
DigitSeq == <<"0","1","2","3","4","5","6","7","8","9">>
DigitVal(c) == (CHOOSE i \in 1..Len(DigitSeq) : DigitSeq[i] = c) - 1

RECURSIVE NumStr(_)
\* str(n) for n >= 0
NumStr(n) ==
    IF n < 10 THEN <<DigitSeq[n + 1]>>
    ELSE NumStr(n \div 10) \o <<DigitSeq[(n % 10) + 1]>>

RECURSIVE DigitsValue(_, _)
\* the value of a run of decimal digits, acc the value read so far
DigitsValue(s, acc) ==
    IF s = <<>> THEN acc
    ELSE DigitsValue(Tail(s), acc * 10 + DigitVal(Head(s)))

\* str.isdigit()
IsDigitStr(s) == s # <<>> /\ \A i \in 1..Len(s) : IsDigit(s[i])

\* int(s): surrounding whitespace and one sign are accepted; any other
\* character than a decimal digit is a ValueError (ok = FALSE).  The digit
\* separator "_" that int() also accepts does not occur in the model's data.
PyInt(s) ==
    LET t == Strip(s)
        signed == t # <<>> /\ t[1] \in {"+", "-"}
        body == IF signed THEN Tail(t) ELSE t
    IN  IF IsDigitStr(body)
        THEN [ok |-> TRUE,
              val |-> IF signed /\ t[1] = "-"
                      THEN 0 - DigitsValue(body, 0)
                      ELSE DigitsValue(body, 0)]
        ELSE [ok |-> FALSE, val |-> 0]

RECURSIVE OnlyDigits(_)
\* re.sub(r'[^\d]', '', s)
OnlyDigits(s) ==
    IF s = <<>> THEN <<>>
    ELSE (IF IsDigit(Head(s)) THEN <<Head(s)>> ELSE <<>>) \o OnlyDigits(Tail(s))

\* torrent['seeds_int'] as each search() computes it
SeedsInt(eng, seeds) ==
    CASE eng = "bitsearch" ->
           (IF PyInt(OnlyDigits(seeds)).ok THEN PyInt(OnlyDigits(seeds)).val ELSE 0)
      [] eng = "torrentgalaxy_one" ->
           (IF IsDigitStr(seeds) THEN PyInt(seeds).val ELSE 0)
      [] eng = "torrentproject" ->
           (IF seeds = <<"-", "1">> THEN 0
            ELSE IF PyInt(seeds).ok THEN PyInt(seeds).val ELSE 0)
      [] OTHER -> (IF PyInt(seeds).ok THEN PyInt(seeds).val ELSE 0)

(***************************************************************************)
(* De-duplication, sorting and selection of search().                      *)
(***************************************************************************)
\* the identity keys: t['desc_link'], and bitsearch's f"{name}_{size}"
KeyOf(t, byNameSize) ==
    IF byNameSize THEN t.name \o <<"_">> \o t.size ELSE t.desc_link

\* the indices of seq whose key is that of seq[i]
IndicesOfKey(seq, byNameSize, i) ==
    {j \in 1..Len(seq) : KeyOf(seq[j], byNameSize) = KeyOf(seq[i], byNameSize)}

RECURSIVE DedupFrom(_, _, _, _)
\* walks seq from index i; every key keeps the position of its first
\* occurrence; the record kept is the first one (lastWins = FALSE, the
\* "if key not in d: d[key] = t" loop) or the last one (lastWins = TRUE, the
\* dict comprehension {key: t for t in seq}, where a later item overwrites)
DedupFrom(seq, byNameSize, lastWins, i) ==
    IF i > Len(seq) THEN <<>>
    ELSE LET same == IndicesOfKey(seq, byNameSize, i)
         IN  IF \A j \in same : j >= i
             THEN LET pick == IF lastWins
                              THEN CHOOSE j \in same : \A k \in same : j >= k
                              ELSE i
                  IN  <<seq[pick]>> \o DedupFrom(seq, byNameSize, lastWins, i + 1)
             ELSE DedupFrom(seq, byNameSize, lastWins, i + 1)

\* does this engine build the dict with a comprehension (a later copy
\* overwrites an earlier one)
DedupLastWins(eng) == eng \in PoolEngines

\* does this engine key the dict by name and size
DedupByNameSize(eng) == eng = "bitsearch"

\* final_candidates before scoring: list(all_torrents.values())
Deduplicate(eng, all_results) ==
    DedupFrom(all_results, DedupByNameSize(eng), DedupLastWins(eng), 1)

\* KeyGreater on the score alone
KeyGreaterScoreOnly(a, b) == a.score > b.score

\* the sort key (t['score'], t['seeds_int']) compared as tuples: a > b
KeyGreater(a, b) ==
    \/ a.score > b.score
    \/ a.score = b.score /\ a.seeds_int > b.seeds_int

RECURSIVE InsertSorted(_, _)
\* inserts t behind every element whose key is >= its own: equal keys keep
\* their original order, as list.sort(reverse=True) does (the sort is stable)
InsertSorted(sorted, t) ==
    IF sorted = <<>> THEN <<t>>
    ELSE IF KeyGreater(t, Head(sorted))
         THEN <<t>> \o sorted
         ELSE <<Head(sorted)>> \o InsertSorted(Tail(sorted), t)

RECURSIVE SortFrom(_, _, _)
SortFrom(seq, i, acc) ==
    IF i > Len(seq) THEN acc
    ELSE SortFrom(seq, i + 1, InsertSorted(acc, seq[i]))

\* SortCandidates without the sort: the candidates stay in dict order
SortCandidatesUnsorted(seq) == seq

\* final_candidates.sort(key=lambda t: (t['score'], t['seeds_int']), reverse=True)
SortCandidates(seq) == SortFrom(seq, 1, <<>>)

\* the scoring loop: adds score and seeds_int to every candidate
ScoreCandidates(eng, seq, search_keywords) ==
    [i \in 1..Len(seq) |->
        [name |-> seq[i].name, desc_link |-> seq[i].desc_link,
         seeds |-> seq[i].seeds, size |-> seq[i].size, cat |-> seq[i].cat,
         score |-> Score(eng, seq[i].name, search_keywords),
         seeds_int |-> SeedsInt(eng, seq[i].seeds)]]

RECURSIVE SelectWhere(_, _, _)
\* [t for t in seq if t['score'] == max_score] (top = TRUE),
\* [t for t in seq if t['score'] < max_score] (top = FALSE)
SelectWhere(seq, max_score, top) ==
    IF seq = <<>> THEN <<>>
    ELSE (IF (top /\ Head(seq).score = max_score)
             \/ (~top /\ Head(seq).score < max_score)
          THEN <<Head(seq)>> ELSE <<>>)
         \o SelectWhere(Tail(seq), max_score, top)

\* seq[:n]
Take(seq, n) == SubSeq(seq, 1, Min(n, Len(seq)))

TopTier(final_candidates) ==
    SelectWhere(final_candidates, final_candidates[1].score, TRUE)

LowerTier(final_candidates) ==
    SelectWhere(final_candidates, final_candidates[1].score, FALSE)

\* SafetyNet with the slice one too long: lower_tier[:SAFETY_NET_RESULTS_COUNT + 1]
SafetyNetOneMore(eng, lower_tier) ==
    Take(lower_tier, SAFETY_NET_RESULTS_COUNT(eng) + 1)

\* lower_tier[:SAFETY_NET_RESULTS_COUNT]
SafetyNet(eng, lower_tier) == Take(lower_tier, SAFETY_NET_RESULTS_COUNT(eng))

\* torrents_to_fetch: top_tier, then the safety net
TorrentsToFetch(eng, final_candidates) ==
    IF final_candidates = <<>> THEN <<>>
    ELSE TopTier(final_candidates) \o SafetyNet(eng, LowerTier(final_candidates))

\* re.sub(r'[\\/*?:"<>|]', '', name)
RECURSIVE SafeName(_)
SafeName(name) ==
    IF name = <<>> THEN <<>>
    ELSE (IF Head(name) \in {"\\", "/", "*", "?", ":", "\"", "<", ">", "|"}
          THEN <<>> ELSE <<Head(name)>>)
         \o SafeName(Tail(name))

(***************************************************************************)
(* urllib.parse.unquote and unquote_plus, on the escapes the queries use.  *)
(***************************************************************************)
\* the percent escapes the model decodes: <<hex digit, hex digit, character>>
PercentCodes ==
    {<<"2", "0", " ">>, <<"2", "1", "!">>, <<"2", "6", "&">>,
     <<"2", "8", "(">>, <<"2", "9", ")">>, <<"2", "D", "-">>, <<"2", "d", "-">>}

IsEscapeAt(s, i) ==
    /\ i + 2 <= Len(s)
    /\ s[i] = "%"
    /\ \E c \in PercentCodes : c[1] = s[i + 1] /\ c[2] = s[i + 2]

RECURSIVE UnquoteFrom(_, _)
UnquoteFrom(s, i) ==
    IF i > Len(s) THEN <<>>
    ELSE IF IsEscapeAt(s, i)
         THEN <<(CHOOSE c \in PercentCodes : c[1] = s[i + 1] /\ c[2] = s[i + 2])[3]>>
              \o UnquoteFrom(s, i + 3)
         ELSE <<s[i]>> \o UnquoteFrom(s, i + 1)

\* urllib.parse.unquote(s)
Unquote(s) == UnquoteFrom(s, 1)

\* urllib.parse.unquote_plus(s): '+' is a space, then unquote
UnquotePlus(s) == Unquote([i \in 1..Len(s) |-> IF s[i] = "+" THEN " " ELSE s[i]])

\* decoded_what of each search(): torrentproject calls unquote, the others
\* unquote_plus
DecodeQuery(eng, what) ==
    IF eng = "torrentproject" THEN Unquote(what) ELSE UnquotePlus(what)

(***************************************************************************)
(* The environment: the indexing site behind retrieve_url.  A site holds   *)
(* rows, answers a query with the rows one of whose whitespace-separated   *)
(* words is a word of the query (case-insensitive, punctuation kept), and  *)
(* serves them RowsPerPage to a page.                                      *)
(***************************************************************************)
\* the number of filler rows of the large site
MaxFill == 9
\* rows a site puts on one result page
RowsPerPage == 6

Sites == {"ok", "many", "down", "empty", "nobody", "flaky"}

Row(name, desc_link, seeds, size, category) ==
    [name |-> name, desc_link |-> desc_link, seeds |-> seeds, size |-> size,
     cat |-> category]

Size1GB == <<"1", " ", "G", "B">>
Size700MB == <<"7", "0", "0", " ", "M", "B">>

\* "AB-CD - Ab Cd (1999)": found by the query words ab-cd, ab and cd.  Its
\* seed count changes between the first request and the later ones.
RowFull(pass_no) ==
    Row(<<"A","B","-","C","D"," ","-"," ","A","b"," ","C","d"," ","(","1","9","9","9",")">>,
        "/t/1", IF pass_no = 1 THEN <<"1","0">> ELSE <<"9","9">>, Size1GB, "tv")
\* "ab cd: zz?"
RowPlain ==
    Row(<<"a","b"," ","c","d",":"," ","z","z","?">>, "/t/2", <<"7">>, Size700MB, "tv")
\* "ab 1999", with a seed count that is no number
RowPart ==
    Row(<<"a","b"," ","1","9","9","9">>, "/t/3", <<"1",",","2","3","4">>, Size1GB, "movies")
\* "cd | zz", same name and size under two links, the second without seeds
RowDupA == Row(<<"c","d"," ","|"," ","z","z">>, "/t/4", <<"-","3">>, Size1GB, "tv")
RowDupB == Row(<<"c","d"," ","|"," ","z","z">>, "/t/5", <<>>, Size1GB, "tv")
\* three episodes of one series: "Breaking Bad S02E07 720p" (no year, most
\* seeds but one), "Breaking Bad 2008 S02E07 1080p", "Breaking Bad 2008 S01E01"
RowEpisodeNoYear ==
    Row(<<"B","r","e","a","k","i","n","g"," ","B","a","d"," ","S","0","2","E","0","7"," ","7","2","0","p">>,
        "/b/1", <<"5","0">>, Size1GB, "tv")
RowEpisode ==
    Row(<<"B","r","e","a","k","i","n","g"," ","B","a","d"," ","2","0","0","8"," ","S","0","2","E","0","7"," ","1","0","8","0","p">>,
        "/b/2", <<"5">>, Size1GB, "tv")
RowOtherEpisode ==
    Row(<<"B","r","e","a","k","i","n","g"," ","B","a","d"," ","2","0","0","8"," ","S","0","1","E","0","1">>,
        "/b/3", <<"6","0">>, Size700MB, "tv")
\* "zab cd": holds "ab cd" inside another word
RowInner ==
    Row(<<"z","a","b"," ","c","d">>, "/t/6", <<"2">>, Size700MB, "tv")
\* "ab <k>x": the fillers of the large site
\* the fourth has as many seeders as the fifth
FillerSeeds(k) == IF k = 4 THEN 5 ELSE k

RowFiller(k) ==
    Row(<<"a","b"," ">> \o NumStr(k) \o <<"x">>, "/f/" \o ToString(k),
        NumStr(FillerSeeds(k)), Size700MB, "tv")

SiteRows(site, pass_no) ==
    IF site \in {"many", "flaky"}
    THEN <<RowFull(pass_no), RowPlain>> \o [k \in 1..MaxFill |-> RowFiller(k)]
    ELSE <<RowFull(pass_no), RowPlain, RowPart, RowDupA, RowDupB,
           RowOtherEpisode, RowEpisodeNoYear, RowEpisode, RowInner>>

\* the site's own search: some word of the query is a word of the title
SiteMatches(title, query) ==
    LET qw == Split(Lower(query))
        tw == Split(Lower(title))
    IN  \E i \in 1..Len(qw) : \E j \in 1..Len(tw) : qw[i] = tw[j]

RECURSIVE MatchingRows(_, _)
MatchingRows(rows, query) ==
    IF rows = <<>> THEN <<>>
    ELSE (IF SiteMatches(Head(rows).name, query) THEN <<Head(rows)>> ELSE <<>>)
         \o MatchingRows(Tail(rows), query)

\* the index-th page (from 0) of rows
PageOfRows(rows, index) ==
    IF index * RowsPerPage >= Len(rows) THEN <<>>
    ELSE SubSeq(rows, index * RowsPerPage + 1, Min((index + 1) * RowsPerPage, Len(rows)))

\* what retrieve_url(page_url) gives: kind "raise" (an exception or a
\* timeout), "empty" (an empty body), "notable" (a page without a results
\* table), "nobody" (a results table without a tbody), "rows"
PageResponse(site, pass_no, query, index) ==
    LET rows == PageOfRows(MatchingRows(SiteRows(site, pass_no), query), index)
    IN  CASE site = "down" -> [kind |-> "raise", rows |-> <<>>]
          [] site = "empty" -> [kind |-> "empty", rows |-> <<>>]
          [] site = "flaky" /\ index = 0 -> [kind |-> "raise", rows |-> <<>>]
          [] rows = <<>> -> [kind |-> "notable", rows |-> <<>>]
          [] site = "nobody" -> [kind |-> "nobody", rows |-> rows]
          [] OTHER -> [kind |-> "rows", rows |-> rows]

\* what the detail page of a candidate holds: "magnet" (a magnet anchor),
\* "emptyhref" (the anchor, with href=""), "nomagnet", "raise"
DetailResponse(desc_link) ==
    CASE desc_link \in {"/t/1", "/t/2", "/t/3", "/t/4", "/b/1", "/b/2", "/b/3"} ->
           "magnet"
      [] desc_link = "/f/1" -> "raise"
      [] desc_link = "/f/2" -> "emptyhref"
      [] OTHER -> "nomagnet"

\* the magnet URI of a detail page
MagnetOf(desc_link) == "magnet:?xt=" \o desc_link

(***************************************************************************)
(* The page adapters: one fetched page to a list of torrents.              *)
(***************************************************************************)
RECURSIVE LastDigitRun(_, _)
\* the group of r'(\d+)\s*seed' on the text before "seed": the digits that
\* end the text (acc: the run being read)
LastDigitRun(s, acc) ==
    IF s = <<>> THEN acc
    ELSE IF IsDigit(Head(s))
         THEN LastDigitRun(Tail(s), Append(acc, Head(s)))
         ELSE IF \E i \in 1..Len(s) : IsDigit(s[i])
              THEN LastDigitRun(Tail(s), <<>>)
              ELSE IF \A i \in 1..Len(s) : IsSpace(s[i]) THEN acc ELSE <<>>

\* the 'seeds' text an adapter stores for a row
RowSeeds(eng, row) ==
    CASE eng = "torrentgalaxy_one" ->
           (IF IsDigitStr(row.seeds) THEN row.seeds ELSE <<"0">>)
      [] eng = "bitsearch" ->
           (IF LastDigitRun(row.seeds, <<>>) # <<>>
            THEN LastDigitRun(row.seeds, <<>>) ELSE <<"0">>)
      [] eng = "torrentproject" ->
           (IF Strip(row.seeds) = <<>> THEN <<"-", "1">> ELSE Strip(row.seeds))
      [] OTHER -> Strip(row.seeds)

\* does the adapter keep the row
RowKept(eng, category, row) ==
    CASE eng = "leetx" -> row.name # <<>> /\ Strip(row.seeds) # <<>>
      [] eng = "x1337xtube" ->
           \/ category = "all"
           \/ row.cat = (IF category \in SupportedCategories(eng)
                         THEN category ELSE "all")
      [] eng = "torrentgalaxy_one" ->
           \/ category = "all"
           \/ category \notin SupportedCategories(eng)
           \/ row.cat = category
      [] eng = "bitsearch" -> category = "all" \/ row.cat = category
      [] OTHER -> TRUE

RECURSIVE ParseRows(_, _, _)
ParseRows(eng, category, rows) ==
    IF rows = <<>> THEN <<>>
    ELSE (IF RowKept(eng, category, Head(rows))
          THEN <<[Head(rows) EXCEPT !.seeds = RowSeeds(eng, Head(rows))]>>
          ELSE <<>>)
         \o ParseRows(eng, category, Tail(rows))

\* does the adapter let an exception escape on this response:
\* x1337xtube calls results_table.find('tbody').find_all('tr') outside its try
PageRaises(eng, resp) == eng = "x1337xtube" /\ resp.kind = "nobody"

\* _fetch_and_parse_page / _fetch_search_page and the loop bodies of
\* bitsearch and torrentproject: raised (an exception leaves the adapter),
\* failed (an exception was caught), torrents
ParsePage(eng, category, resp) ==
    IF PageRaises(eng, resp)
    THEN [raised |-> TRUE, failed |-> TRUE, torrents |-> <<>>]
    ELSE IF resp.kind = "raise"
    THEN [raised |-> FALSE, failed |-> TRUE, torrents |-> <<>>]
    ELSE [raised |-> FALSE, failed |-> FALSE,
          torrents |-> IF resp.kind \in {"rows", "nobody"}
                       THEN ParseRows(eng, category, resp.rows)
                       ELSE <<>>]

\* _fetch_magnet_link: the link it stores in the torrent, found = FALSE when
\* it returns None
FetchMagnetLink(eng, torrent) ==
    LET detail == DetailResponse(torrent.desc_link)
    IN  CASE detail = "magnet" ->
               [found |-> TRUE, link |-> MagnetOf(torrent.desc_link)]
          [] detail = "emptyhref" /\ eng = "x1337xtube" ->
               [found |-> TRUE, link |-> ""]
          [] OTHER -> [found |-> FALSE, link |-> ""]

\* EmittedFor with the record printed twice, whatever the resolution gave
EmittedTwice(eng, torrent) ==
    LET record == [link |-> FetchMagnetLink(eng, torrent).link,
                   name |-> SafeName(torrent.name), desc_link |-> torrent.desc_link]
    IN  <<record, record>>

\* the records prettyPrinter receives when a resolution task completes
EmittedFor(eng, torrent) ==
    LET result == FetchMagnetLink(eng, torrent)
    IN  IF eng = "torrentproject"
        THEN <<[link |-> IF result.found THEN result.link ELSE "-1",
                name |-> torrent.name, desc_link |-> torrent.desc_link]>>
        ELSE IF result.found
        THEN <<[link |-> result.link, name |-> SafeName(torrent.name),
                desc_link |-> torrent.desc_link]>>
        ELSE <<>>

\* the number of rows of a full torrentproject page: "if len(pageRes) < 20: break"
TP_FULL_PAGE == 20

(***************************************************************************)
(* The passes of search().                                                 *)
(***************************************************************************)
\* NumPasses with a third pass in every plugin
NumPassesThree(eng) == 3

\* how many passes search() is written with
NumPasses(eng) == IF eng = "torrentproject" THEN 3 ELSE 2

\* the query of pass n
PassQuery(eng, decoded, n) ==
    IF eng = "torrentproject"
    THEN CASE n = 1 -> decoded
           [] n = 2 -> ConservativeQuery(decoded)
           [] OTHER -> AggressiveQuery(decoded)
    ELSE IF n = 1 THEN ConservativeQuery(decoded) ELSE AggressiveQuery(decoded)

\* the test that guards the call of _execute_search_pass for pass n
PassWanted(eng, decoded, n) ==
    IF eng = "torrentproject"
    THEN CASE n = 1 -> TRUE
           [] n = 2 -> Lower(PassQuery(eng, decoded, 2)) # Lower(decoded)
           [] OTHER -> Lower(PassQuery(eng, decoded, 3))
                           \notin {Lower(decoded), Lower(PassQuery(eng, decoded, 2))}
    ELSE IF n = 1 THEN TRUE
         ELSE Lower(PassQuery(eng, decoded, 2)) # Lower(PassQuery(eng, decoded, 1))

\* PassFetches with the "if not query: return []" guard dropped
PassFetchesEmptyToo(eng, decoded, n) == PassWanted(eng, decoded, n)

\* "if not query: return []" at the head of _execute_search_pass
PassFetches(eng, decoded, n) ==
    PassWanted(eng, decoded, n) /\ PassQuery(eng, decoded, n) # <<>>

RECURSIVE Concat(_)
\* pass1_results + pass2_results (+ pass3_results)
Concat(lists) == IF lists = <<>> THEN <<>> ELSE Head(lists) \o Concat(Tail(lists))

(***************************************************************************)
(* piratebay: the query cleaner, the sort rank and the API.                *)
(***************************************************************************)
RECURSIVE SkipSpaces(_, _)
\* the first index >= i of s that holds no whitespace, Len(s) + 1 if none
SkipSpaces(s, i) ==
    IF i <= Len(s) /\ IsSpace(s[i]) THEN SkipSpaces(s, i + 1) ELSE i

\* the index of the ")" that ends a match of \(\s*\d{4}\s*\) at i, 0 if none
ParenYearEnd(s, i) ==
    IF i <= Len(s) /\ s[i] = "("
    THEN LET d == SkipSpaces(s, i + 1)
             e == SkipSpaces(s, d + 4)
         IN  IF /\ d + 3 <= Len(s)
                /\ \A k \in 0..3 : IsDigit(s[d + k])
                /\ e <= Len(s)
                /\ s[e] = ")"
             THEN e ELSE 0
    ELSE 0

RECURSIVE SubParenYearFrom(_, _)
\* re.sub(r'\(\s*\d{4}\s*\)', '', s)
SubParenYearFrom(s, i) ==
    IF i > Len(s) THEN <<>>
    ELSE IF ParenYearEnd(s, i) # 0 THEN SubParenYearFrom(s, ParenYearEnd(s, i) + 1)
    ELSE <<s[i]>> \o SubParenYearFrom(s, i + 1)

RECURSIVE Join(_)
\* ' '.join(words)
Join(words) ==
    IF words = <<>> THEN <<>>
    ELSE IF Len(words) = 1 THEN words[1]
    ELSE words[1] \o <<" ">> \o Join(Tail(words))

RECURSIVE RemoveParens(_)
\* s.replace('(', '').replace(')', '')
RemoveParens(s) ==
    IF s = <<>> THEN <<>>
    ELSE (IF Head(s) \in {"(", ")"} THEN <<>> ELSE <<Head(s)>>) \o RemoveParens(Tail(s))

\* piratebay._clean_query
CleanQuery(query) ==
    LET unquoted == Unquote(query)
        amp == {i \in 1..Len(unquoted) : unquoted[i] = "&"}
        cut == IF amp = {} THEN unquoted
               ELSE Strip(SubSeq(unquoted, 1,
                                 (CHOOSE i \in amp : \A j \in amp : i <= j) - 1))
        noyear == Strip(SubParenYearFrom(cut, 1))
        words == Split(noyear)
        notrail == IF /\ words # <<>>
                      /\ IsDigitStr(words[Len(words)])
                      /\ Len(words[Len(words)]) = 4
                   THEN Strip(Join(SubSeq(words, 1, Len(words) - 1)))
                   ELSE noyear
    IN  Strip(RemoveParens(notrail))

\* \w of the re module
IsWordChar(c) == IsAlnum(c) \/ c = "_"

\* \b at the gap before index k of s (k in 1..Len(s)+1)
BoundaryAt(s, k) ==
    (k > 1 /\ IsWordChar(s[k - 1])) # (k <= Len(s) /\ IsWordChar(s[k]))

\* the indices of s where sub occurs
Occurrences(s, sub) ==
    {i \in 1..(Len(s) - Len(sub) + 1) : SubSeq(s, i, i + Len(sub) - 1) = sub}

\* piratebay._get_sort_rank
GetSortRank(title, search_term) ==
    LET low_title == Lower(title)
        low_term == Lower(search_term)
        occ == Occurrences(low_title, low_term)
    IN  IF 1 \in occ THEN 1
        ELSE IF \E i \in occ : BoundaryAt(low_title, i)
                                /\ BoundaryAt(low_title, i + Len(low_term))
        THEN 2
        ELSE IF occ # {} THEN 3
        ELSE 4

RECURSIVE InsertByRank(_, _, _)
\* list.sort(key=rank): ascending, stable
InsertByRank(sorted, r, term) ==
    IF sorted = <<>> THEN <<r>>
    ELSE IF GetSortRank(r.name, term) < GetSortRank(Head(sorted).name, term)
         THEN <<r>> \o sorted
         ELSE <<Head(sorted)>> \o InsertByRank(Tail(sorted), r, term)

\* SortByRank without the sort
SortByRankUnsorted(seq, term, acc) == seq

RECURSIVE SortByRank(_, _, _)
SortByRank(seq, term, acc) ==
    IF seq = <<>> THEN acc
    ELSE SortByRank(Tail(seq), term, InsertByRank(acc, Head(seq), term))

\* what piratebay.retrieve_url meets: "urlerror" (urlopen raises something
\* other than HTTPError), "httperror" (caught, '' is returned), "empty" (an
\* empty body), "nonjson", "json" with the items of the answer; an answer
\* without a match holds the API's all-zero info_hash item
ApiResponse(s, query) ==
    LET rows == MatchingRows(SiteRows(s, 1), query)
    IN  CASE s = "down" -> [kind |-> "urlerror", items |-> <<>>]
          [] s = "flaky" -> [kind |-> "httperror", items |-> <<>>]
          [] s = "empty" -> [kind |-> "empty", items |-> <<>>]
          [] s = "nobody" -> [kind |-> "nonjson", items |-> <<>>]
          [] OTHER ->
               [kind |-> "json",
                items |-> IF rows = <<>>
                          THEN <<[name |-> <<"N","o">>, desc_link |-> "/0", zero |-> TRUE]>>
                          ELSE [i \in 1..Len(rows) |->
                                  [name |-> rows[i].name,
                                   desc_link |-> rows[i].desc_link, zero |-> FALSE]]]

RECURSIVE CollectResults(_)
\* the loop that builds all_results: an all-zero info_hash is skipped
CollectResults(items) ==
    IF items = <<>> THEN <<>>
    ELSE (IF Head(items).zero THEN <<>>
          ELSE <<[link |-> MagnetOf(Head(items).desc_link), name |-> Head(items).name,
                  desc_link |-> Head(items).desc_link]>>)
         \o CollectResults(Tail(items))

(***************************************************************************)
(* yts_mx: the API and the page loop.  The queries of the model hold no    *)
(* quality, codec, rating or genre filter, so query_term is the cleaned    *)
(* query and no torrent is filtered out.                                   *)
(***************************************************************************)
\* the answer to the first request: "raise", "empty" ('' from
\* retrieve_url), "nonjson", or "json" with data.movie_count and data.limit
YtsFirstResponse(s, query) ==
    CASE s = "down" -> [kind |-> "raise", movie_count |-> 0, limit |-> RowsPerPage]
      [] s = "empty" -> [kind |-> "empty", movie_count |-> 0, limit |-> RowsPerPage]
      [] s = "nobody" -> [kind |-> "nonjson", movie_count |-> 0, limit |-> RowsPerPage]
      [] OTHER -> [kind |-> "json",
                   movie_count |-> Len(MatchingRows(SiteRows(s, 1), query)),
                   limit |-> RowsPerPage]

\* data.movies of page page_no (from 1); the flaky site fails on page 1,
\* and a page behind the last movie holds no movies
YtsPageMovies(s, query, page_no) ==
    IF s = "flaky" /\ page_no = 1 THEN <<>>
    ELSE PageOfRows(MatchingRows(SiteRows(s, 1), query), page_no - 1)

\* movie['torrents']: the first movie of the site has two, the others one
YtsTorrents(movie) ==
    IF movie.desc_link = "/t/1" THEN <<"720p", "1080p">> ELSE <<"1080p">>

RECURSIVE YtsResults(_)
\* the results of one page: one per torrent of each movie, '_sort_title'
\* (the movie title) kept in name until the sort is over
YtsResults(movies) ==
    IF movies = <<>> THEN <<>>
    ELSE [k \in 1..Len(YtsTorrents(Head(movies))) |->
            [link |-> Head(movies).desc_link \o "/" \o YtsTorrents(Head(movies))[k],
             name |-> Head(movies).name,
             desc_link |-> Head(movies).desc_link]]
         \o YtsResults(Tail(movies))

RECURSIVE YtsCollectFrom(_, _, _, _)
\* the loop "for page_no in range(total_pages)"
YtsCollectFrom(s, query, page_no, total_pages) ==
    IF page_no > total_pages THEN <<>>
    ELSE YtsResults(YtsPageMovies(s, query, page_no))
         \o YtsCollectFrom(s, query, page_no + 1, total_pages)

\* (movie_count // limit) + 1
YtsTotalPages(first) == (first.movie_count \div first.limit) + 1

\* all_results before the sort
YtsCollect(s, query) ==
    YtsCollectFrom(s, query, 1, YtsTotalPages(YtsFirstResponse(s, query)))

\* the name of a printed result: title_long and the bracketed fields
YtsName(r) ==
    [r EXCEPT !.name = r.name \o <<" ", "[", "Y", "T", "S", ".", "M", "X", "]">>]

\* all_results sorted on _get_sort_rank(r['_sort_title'], search_query), as
\* printed
YtsPrinted(s, query) ==
    LET sorted == SortByRank(YtsCollect(s, query), query, <<>>)
    IN  [i \in 1..Len(sorted) |-> YtsName(sorted[i])]

(***************************************************************************)
(* The state of one call of search(what, cat).                             *)
(***************************************************************************)
VARIABLES
    engine,           \* the plugin whose search() runs
    what,             \* the query as the host passes it (URL-encoded)
    cat,              \* the category argument
    site,             \* the behaviour of the indexing site
    bs4,              \* whether the BeautifulSoup import succeeded
    pc,               \* where search() is: "call", "pass", "fetch", "loop",
                      \* "merge", "resolve", "api", "done", "raised"
    exc,              \* the exception that left search(), or "none"
    decoded_what,
    search_keywords,
    search_query,     \* piratebay: the cleaned query
    pass_no,          \* the pass being run
    pass_results,     \* pass1_results, pass2_results, ... of the passes over
    running,          \* the pages whose fetch task is in flight
    page_idx,         \* the loop variable of the sequential page loops
    pass_torrents,    \* the list the running pass collects into
    fetch_log,        \* <<pass, page>> of every page fetch issued, in order
    final_candidates,
    torrents_to_fetch,
    task,             \* per selected torrent: "queued", "running", "done"
    emitted,          \* the records handed to prettyPrinter, in order
    fnPc,             \* the pure-function harness: "idle", "args", "done"
    fnArgs,
    fnRet

searchVars ==
    <<engine, what, cat, site, bs4, pc, exc, decoded_what, search_keywords,
      search_query, pass_no, pass_results, running, page_idx, pass_torrents, fetch_log,
      final_candidates, torrents_to_fetch, task, emitted>>
fnVars == <<fnPc, fnArgs, fnRet>>
vars == <<searchVars, fnVars>>

\* "Breaking%20Bad%20(2008)%20S02E07"
BreakingBadQuery ==
    <<"B","r","e","a","k","i","n","g","%","2","0","B","a","d","%","2","0","(","2","0","0","8",")","%","2","0","S","0","2","E","0","7">>

\* the queries the host passes: "ab%20cd", "ab-cd", "%281999%29", "!!", "",
\* "Ab-cd%20(1999)", "ab+cd", "ab", "Breaking%20Bad%20(2008)%20S02E07"
Queries ==
    {<<"a","b","%","2","0","c","d">>,
     <<"a","b","-","c","d">>,
     <<"%","2","8","1","9","9","9","%","2","9">>,
     <<"!","!">>,
     <<>>,
     <<"A","b","-","c","d","%","2","0","(","1","9","9","9",")">>,
     <<"a","b","+","c","d">>,
     <<"a","b">>,
     BreakingBadQuery}

\* "xxx" is in no plugin's supported_categories
Categories == {"all", "tv", "movies", "xxx"}

\* the plugins whose search() returns at once without BeautifulSoup
NeedsBs4(eng) == eng \in PoolEngines \cup {"bitsearch"}

FnIdle == fnPc = "idle" /\ fnArgs = <<>> /\ fnRet = <<>>

Init ==
    /\ engine \in Engines
    /\ what \in Queries
    /\ cat \in Categories
    /\ site \in Sites
    /\ bs4 \in (IF NeedsBs4(engine) THEN BOOLEAN ELSE {TRUE})
    /\ pc = "call"
    /\ exc = "none"
    /\ decoded_what = <<>>
    /\ search_keywords = <<>>
    /\ search_query = <<>>
    /\ pass_no = 0
    /\ pass_results = <<>>
    /\ running = {}
    /\ page_idx = 0
    /\ pass_torrents = <<>>
    /\ fetch_log = <<>>
    /\ final_candidates = <<>>
    /\ torrents_to_fetch = <<>>
    /\ task = <<>>
    /\ emitted = <<>>
    /\ FnIdle

inputVars == <<engine, what, cat, site, bs4>>

\* the head of search(): the BeautifulSoup test, the decoding, the keywords
SearchStart ==
    /\ pc = "call"
    /\ engine \in HtmlEngines
    /\ IF NeedsBs4(engine) /\ ~bs4
       THEN /\ pc' = "done"
            /\ UNCHANGED <<decoded_what, search_keywords, pass_no>>
       ELSE /\ decoded_what' = DecodeQuery(engine, what)
            /\ search_keywords' = KeywordsForScoring(DecodeQuery(engine, what))
            /\ pass_no' = 1
            /\ pc' = "pass"
    /\ UNCHANGED <<inputVars, exc, search_query, pass_results, running, page_idx,
                   pass_torrents,
                   fetch_log, final_candidates, torrents_to_fetch, task, emitted>>
    /\ UNCHANGED fnVars

\* AfterPass that leaves for the merge behind the first pass
AfterPassEarly(n) == "merge"

\* where search() goes once the pass n is over
AfterPass(n) == IF n < NumPasses(engine) THEN "pass" ELSE "merge"

\* the query of the next pass is cleaned and compared; when the pass is not
\* wanted or its query is empty nothing is fetched and its result is [];
\* otherwise the page fetches start: all of them at once in the pool
\* engines (max_workers is the number of pages), the first one in the others
PassBegin ==
    /\ pc = "pass"
    /\ IF ~PassFetches(engine, decoded_what, pass_no)
       THEN /\ pass_results' = Append(pass_results, <<>>)
            /\ pass_no' = pass_no + 1
            /\ pc' = AfterPass(pass_no)
            /\ UNCHANGED <<running, page_idx, fetch_log>>
       ELSE IF engine \in PoolEngines
       THEN /\ running' = PagesOf(engine, cat)
            /\ fetch_log' = fetch_log \o
                 [i \in 1..Cardinality(PagesOf(engine, cat)) |-> <<pass_no, i>>]
            /\ pc' = "fetch"
            /\ UNCHANGED <<pass_results, pass_no, page_idx>>
       ELSE /\ page_idx' = IF engine = "torrentproject" THEN 0 ELSE 1
            /\ pc' = "loop"
            /\ UNCHANGED <<pass_results, pass_no, running, fetch_log>>
    /\ pass_torrents' = <<>>
    /\ UNCHANGED <<inputVars, exc, decoded_what, search_keywords, search_query,
                   final_candidates, torrents_to_fetch, task, emitted>>
    /\ UNCHANGED fnVars

\* one page task of the pool completes and as_completed hands it to
\* pass_torrents.extend(future.result()); the last one ends the pass
PageDone(p) ==
    /\ pc = "fetch"
    /\ p \in running
    /\ LET resp == PageResponse(site, pass_no,
                                PassQuery(engine, decoded_what, pass_no), p - 1)
           parsed == ParsePage(engine, cat, resp)
       IN  IF parsed.raised
           THEN /\ exc' = "AttributeError"
                /\ pc' = "raised"
                /\ running' = {}
                /\ UNCHANGED <<pass_torrents, pass_results, pass_no>>
           ELSE /\ running' = running \ {p}
                /\ exc' = exc
                /\ IF running = {p}
                   THEN /\ pass_results' =
                              Append(pass_results, pass_torrents \o parsed.torrents)
                        /\ pass_torrents' = <<>>
                        /\ pass_no' = pass_no + 1
                        /\ pc' = AfterPass(pass_no)
                   ELSE /\ pass_torrents' = pass_torrents \o parsed.torrents
                        /\ UNCHANGED <<pass_results, pass_no, pc>>
    /\ UNCHANGED <<inputVars, decoded_what, search_keywords, search_query, page_idx,
                   fetch_log,
                   final_candidates, torrents_to_fetch, task, emitted>>
    /\ UNCHANGED fnVars

\* LoopEnds that also leaves the loop behind a page that raised
LoopEndsBehindAnyPage(eng, category, index, parsed) ==
    \/ index + 1 \notin PagesOf(eng, category)
    \/ /\ eng = "torrentproject"
       /\ Len(parsed.torrents) < TP_FULL_PAGE

\* does the page loop stop behind this page: the last page, or
\* torrentproject's "if len(parser.pageRes) < 20: break", which a page that
\* raised never reaches
LoopEnds(eng, category, index, parsed) ==
    \/ index + 1 \notin PagesOf(eng, category)
    \/ /\ eng = "torrentproject"
       /\ ~parsed.failed
       /\ Len(parsed.torrents) < TP_FULL_PAGE

\* one turn of the sequential page loop of bitsearch and torrentproject
LoopPage ==
    /\ pc = "loop"
    /\ LET index0 == IF engine = "torrentproject" THEN page_idx ELSE page_idx - 1
           resp == PageResponse(site, pass_no,
                                PassQuery(engine, decoded_what, pass_no), index0)
           parsed == ParsePage(engine, cat, resp)
       IN  /\ fetch_log' = Append(fetch_log, <<pass_no, page_idx>>)
           /\ IF LoopEnds(engine, cat, page_idx, parsed)
              THEN /\ pass_results' =
                         Append(pass_results, pass_torrents \o parsed.torrents)
                   /\ pass_torrents' = <<>>
                   /\ pass_no' = pass_no + 1
                   /\ pc' = AfterPass(pass_no)
                   /\ UNCHANGED page_idx
              ELSE /\ pass_torrents' = pass_torrents \o parsed.torrents
                   /\ page_idx' = page_idx + 1
                   /\ UNCHANGED <<pass_results, pass_no, pc>>
    /\ UNCHANGED <<inputVars, exc, decoded_what, search_keywords, search_query, running,
                   final_candidates, torrents_to_fetch, task, emitted>>
    /\ UNCHANGED fnVars

\* SubmitAll for a pool without a width: every submitted task runs at once
SubmitAllUnbounded(n) == [i \in 1..n |-> "running"]

\* the statuses of the n submitted tasks: the pool starts a worker per
\* submit until MAX_MAGNET_WORKERS run, the later tasks wait in its queue
SubmitAll(n) ==
    [i \in 1..n |-> IF i <= MAX_MAGNET_WORKERS THEN "running" ELSE "queued"]

\* search() from the de-duplication to the submission of the resolution
\* tasks: no network call lies between
MergeSelect ==
    /\ pc = "merge"
    /\ LET candidates == Deduplicate(engine, Concat(pass_results))
           sorted == SortCandidates(
                         ScoreCandidates(engine, candidates, search_keywords))
           selected == TorrentsToFetch(engine, sorted)
       IN  IF candidates = <<>>
           THEN /\ pc' = "done"
                /\ UNCHANGED <<final_candidates, torrents_to_fetch, task>>
           ELSE /\ final_candidates' = sorted
                /\ torrents_to_fetch' = selected
                /\ task' = SubmitAll(Len(selected))
                /\ pc' = "resolve"
    /\ UNCHANGED <<inputVars, exc, decoded_what, search_keywords, search_query, pass_no,
                   pass_results, running, page_idx, pass_torrents, fetch_log,
                   emitted>>
    /\ UNCHANGED fnVars

\* the task that leaves the queue when a worker becomes free, 0 if none
NextQueued(t) ==
    IF \E i \in 1..Len(t) : t[i] = "queued"
    THEN CHOOSE i \in 1..Len(t) :
            t[i] = "queued" /\ \A j \in 1..Len(t) : t[j] = "queued" => i <= j
    ELSE 0

\* the resolution task i completes; as_completed hands its result to the
\* loop body, which prints it or drops it; the freed worker takes the next
\* queued task; behind the last task search() returns
ResolveDone(i) ==
    /\ pc = "resolve"
    /\ i \in 1..Len(task)
    /\ task[i] = "running"
    /\ emitted' = emitted \o EmittedFor(engine, torrents_to_fetch[i])
    /\ LET done == [task EXCEPT ![i] = "done"]
           next == NextQueued(done)
       IN  task' = IF next = 0 THEN done ELSE [done EXCEPT ![next] = "running"]
    /\ pc' = IF \A j \in 1..Len(task) : j # i => task[j] = "done"
             THEN "done" ELSE "resolve"
    /\ UNCHANGED <<inputVars, exc, decoded_what, search_keywords, search_query, pass_no,
                   pass_results, running, page_idx, pass_torrents, fetch_log,
                   final_candidates, torrents_to_fetch>>
    /\ UNCHANGED fnVars

\* piratebay.search() up to the API request: the cleaned query, the
\* category lookup supported_categories[cat]
PbCall ==
    /\ pc = "call"
    /\ engine = "piratebay"
    /\ search_query' = CleanQuery(what)
    /\ IF CleanQuery(what) = <<>>
       THEN pc' = "done" /\ UNCHANGED <<exc, fetch_log>>
       ELSE IF cat \notin SupportedCategories(engine)
       THEN pc' = "raised" /\ exc' = "KeyError" /\ UNCHANGED fetch_log
       ELSE pc' = "api" /\ fetch_log' = Append(fetch_log, <<1, 1>>) /\ UNCHANGED exc
    /\ UNCHANGED <<inputVars, decoded_what, search_keywords, pass_no, pass_results,
                   running, page_idx, pass_torrents, final_candidates,
                   torrents_to_fetch, task, emitted>>
    /\ UNCHANGED fnVars

\* piratebay.search() from the answer of retrieve_url to the end:
\* json.loads, the collection, the sort, the printing
PbResponse ==
    /\ pc = "api"
    /\ engine = "piratebay"
    /\ LET resp == ApiResponse(site, search_query)
       IN  CASE resp.kind = "urlerror" ->
                  pc' = "raised" /\ exc' = "URLError" /\ UNCHANGED emitted
             [] resp.kind \in {"httperror", "empty", "nonjson"} ->
                  pc' = "raised" /\ exc' = "JSONDecodeError" /\ UNCHANGED emitted
             [] OTHER ->
                  /\ pc' = "done"
                  /\ emitted' = SortByRank(CollectResults(resp.items), search_query, <<>>)
                  /\ UNCHANGED exc
    /\ UNCHANGED <<inputVars, decoded_what, search_keywords, search_query, pass_no,
                   pass_results, running, page_idx, pass_torrents, fetch_log,
                   final_candidates, torrents_to_fetch, task>>
    /\ UNCHANGED fnVars

\* yts_mx.search() up to the answer of the first request: the cleaned
\* query, then return on an exception, an empty or non-JSON answer, or a
\* movie_count of 0
YtsCall ==
    /\ pc = "call"
    /\ engine = "yts_mx"
    /\ search_query' = CleanQuery(what)
    /\ IF CleanQuery(what) = <<>>
       THEN pc' = "done" /\ UNCHANGED fetch_log
       ELSE /\ fetch_log' = Append(fetch_log, <<1, 0>>)
            /\ LET first == YtsFirstResponse(site, CleanQuery(what))
               IN  pc' = IF first.kind = "json" /\ first.movie_count # 0
                         THEN "api" ELSE "done"
    /\ UNCHANGED <<inputVars, exc, decoded_what, search_keywords, pass_no, pass_results,
                   running, page_idx, pass_torrents, final_candidates,
                   torrents_to_fetch, task, emitted>>
    /\ UNCHANGED fnVars

\* yts_mx.search() from the page loop to the end: the pages in turn, the
\* sort, the printing
YtsPages ==
    /\ pc = "api"
    /\ engine = "yts_mx"
    /\ LET first == YtsFirstResponse(site, search_query)
       IN  fetch_log' = fetch_log \o [p \in 1..YtsTotalPages(first) |-> <<1, p>>]
    /\ emitted' = YtsPrinted(site, search_query)
    /\ pc' = "done"
    /\ UNCHANGED <<inputVars, exc, decoded_what, search_keywords, search_query, pass_no,
                   pass_results, running, page_idx, pass_torrents,
                   final_candidates, torrents_to_fetch, task>>
    /\ UNCHANGED fnVars

Next ==
    \/ SearchStart
    \/ PassBegin
    \/ \E p \in running : PageDone(p)
    \/ LoopPage
    \/ MergeSelect
    \/ \E i \in 1..Len(task) : ResolveDone(i)
    \/ PbCall
    \/ PbResponse
    \/ YtsCall
    \/ YtsPages

Spec == Init /\ [][Next]_vars

(***************************************************************************)
(* The scorer on its own: keywords of a query, then the scores of two      *)
(* titles against them.                                                    *)
(***************************************************************************)
\* the largest small number of copies of a word in a query or a title
SmallRep == 2
\* a number of copies above the completeness bonus
BigRep == 103

\* n copies of word, each followed by sep
Rep(word, n, sep) ==
    [k \in 1..(n * Len(word \o sep)) |-> (word \o sep)[((k - 1) % Len(word \o sep)) + 1]]

RepCounts == {0, 1, SmallRep, BigRep}

TheMatrix == <<"t","h","e"," ","m","a","t","r","i","x">>
TheMatrixTitle ==
    <<"T","h","e"," ","M","a","t","r","i","x"," ","1","9","9","9"," ",
      "1","0","8","0","p">>

\* "a I of cat"
FloorQuery == <<"a"," ","I"," ","o","f"," ","c","a","t">>

ScoreQueries ==
    {Rep(<<"a","b">>, i, <<" ">>) \o Rep(<<"c","d">>, j, <<" ">>) \o <<"a">> :
        i \in RepCounts, j \in 0..1}
    \cup {TheMatrix, <<"!","!">>, FloorQuery}

ScoreTitles ==
    {Rep(<<"A","b">>, i, <<".">>) \o Rep(<<"C","D">>, j, <<"-">>) \o <<"z","z">> :
        i \in RepCounts, j \in 0..1}
    \cup {TheMatrixTitle}

InitScore ==
    /\ engine \in HtmlEngines
    /\ what = <<>>
    /\ cat = "all"
    /\ site = "ok"
    /\ bs4 = TRUE
    /\ pc = "idle"
    /\ exc = "none"
    /\ decoded_what = <<>>
    /\ search_keywords = <<>>
    /\ search_query = <<>>
    /\ pass_no = 0
    /\ pass_results = <<>>
    /\ running = {}
    /\ page_idx = 0
    /\ pass_torrents = <<>>
    /\ fetch_log = <<>>
    /\ final_candidates = <<>>
    /\ torrents_to_fetch = <<>>
    /\ task = <<>>
    /\ emitted = <<>>
    /\ fnPc = "args"
    /\ fnArgs \in [query : ScoreQueries, title1 : ScoreTitles, title2 : ScoreTitles]
    /\ fnRet = <<>>

\* search_keywords = self._get_keywords_for_scoring(decoded_what)
FnKeywords ==
    /\ fnPc = "args"
    /\ fnRet' = [keywords |-> KeywordsForScoring(fnArgs.query)]
    /\ fnPc' = "keywords"
    /\ UNCHANGED <<searchVars, fnArgs>>

\* torrent['score'] = self._calculate_advanced_score(torrent['name'], search_keywords)
FnScore ==
    /\ fnPc = "keywords"
    /\ fnRet' = [keywords |-> fnRet.keywords,
                 score1 |-> Score(engine, fnArgs.title1, fnRet.keywords),
                 score2 |-> Score(engine, fnArgs.title2, fnRet.keywords)]
    /\ fnPc' = "done"
    /\ UNCHANGED <<searchVars, fnArgs>>

NextScore ==
    \/ FnKeywords
    \/ FnScore

SpecScore == InitScore /\ [][NextScore]_vars

(***************************************************************************)
(* Properties of the scorer, stated on the specification SpecScore.        *)
(***************************************************************************)
\* how often word occurs in words
CountOf(word, words) == Cardinality({i \in 1..Len(words) : words[i] = word})

\* the title keywords T contain every distinct word of K
HasAll(T, K) == \A i \in 1..Len(K) : CountOf(K[i], T) > 0

\* the title contains every distinct word of K
Complete(title, K) == HasAll(KeywordsForScoring(title), K)

\* the sum over the distinct words w of K of min(count of w in K, count of w
\* in T): the occurrences in K that are at most the count-in-T-th of their word
TermFrequency(T, K) ==
    Cardinality({i \in 1..Len(K) : CountOf(K[i], SubSeq(K, 1, i)) <= CountOf(K[i], T)})

\* B + the term-frequency sum
ExpectedScore(title, K) ==
    LET T == KeywordsForScoring(title)
    IN  (IF K # <<>> /\ HasAll(T, K) THEN 100 ELSE 0) + TermFrequency(T, K)

C9_BonusDominates ==
    fnPc = "done" =>
        /\ (Complete(fnArgs.title1, fnRet.keywords)
              /\ ~Complete(fnArgs.title2, fnRet.keywords))
               => fnRet.score1 > fnRet.score2
        /\ (Complete(fnArgs.title2, fnRet.keywords)
              /\ ~Complete(fnArgs.title1, fnRet.keywords))
               => fnRet.score2 > fnRet.score1

(***************************************************************************)
(* Properties of search(), stated on the specification Spec.               *)
(***************************************************************************)
\* the plugins whose search() is written with a conservative pass 1 and an
\* aggressive pass 2
TwoPassEngines == HtmlEngines \ {"torrentproject"}

\* the passes that issued at least one page fetch
PassesFetched == {fetch_log[i][1] : i \in 1..Len(fetch_log)}

\* search() is past its last pass
PassesOver == pc \in {"merge", "resolve", "done"} /\ pass_no > NumPasses(engine)

\* C1: search() of the API plugin never raises to the caller, whatever the
\* category and whatever the request meets
C1_SearchNeverRaises == engine = "piratebay" => pc # "raised"

\* C2: every record handed to prettyPrinter carries a non-empty resolved
\* link, never the placeholder '-1'
C2_EmittedLinkResolved ==
    \A i \in 1..Len(emitted) : emitted[i].link \notin {"", "-1"}

\* the identity key the plugin de-duplicates by
IdentityKey(t) == IF engine = "bitsearch" THEN <<t.name, t.size>> ELSE t.desc_link

\* the first record of seq with the identity key of t
FirstWithKey(seq, t) ==
    seq[CHOOSE i \in 1..Len(seq) :
            /\ IdentityKey(seq[i]) = IdentityKey(t)
            /\ \A j \in 1..(i - 1) : IdentityKey(seq[j]) # IdentityKey(t)]

\* C3: the merged candidates hold one record per distinct identity key of
\* the concatenated pass results, and that record is the first occurrence
C3_DedupFirstWins ==
    (PassesOver /\ pc # "merge" /\ final_candidates # <<>>) =>
        LET all == Concat(pass_results)
        IN  /\ Len(final_candidates)
                 = Cardinality({IdentityKey(all[i]) : i \in 1..Len(all)})
            /\ \A i \in 1..Len(final_candidates) :
                  final_candidates[i].seeds
                     = FirstWithKey(all, final_candidates[i]).seeds

\* the largest score among the candidates
MaxScore ==
    CHOOSE m \in {final_candidates[i].score : i \in 1..Len(final_candidates)} :
        \A i \in 1..Len(final_candidates) : final_candidates[i].score <= m

\* the positions of the top tier and of the lower tier
TopPositions ==
    LET m == MaxScore
    IN  {i \in 1..Len(final_candidates) : final_candidates[i].score = m}
LowerPositions ==
    LET m == MaxScore
    IN  {i \in 1..Len(final_candidates) : final_candidates[i].score < m}

\* the safety-net size the plugin is configured with
SafetyNetCount == IF engine = "bitsearch" THEN 8 ELSE 5

\* C4: the number selected is len(topTier) + min(SAFETY_NET_RESULTS_COUNT,
\* len(lowerTier)); every top-tier candidate is selected, the others selected
\* are lower-tier candidates, and none is selected twice
C4_SelectionBound ==
    (pc \in {"resolve", "done"} /\ final_candidates # <<>>) =>
        /\ Len(torrents_to_fetch)
             = Cardinality(TopPositions)
               + Min(SafetyNetCount, Cardinality(LowerPositions))
        /\ \A i \in TopPositions :
              \E k \in 1..Len(torrents_to_fetch) : torrents_to_fetch[k] = final_candidates[i]
        /\ \A k \in 1..Len(torrents_to_fetch) :
              \E i \in 1..Len(final_candidates) : torrents_to_fetch[k] = final_candidates[i]
        /\ \A k, l \in 1..Len(torrents_to_fetch) :
              k # l => IdentityKey(torrents_to_fetch[k]) # IdentityKey(torrents_to_fetch[l])

\* C4's case: the lower tier is larger than the safety net, which cuts it
C4_Witness ==
    /\ pc = "resolve"
    /\ final_candidates # <<>>
    /\ Cardinality(LowerPositions) > SafetyNetCount
    /\ Cardinality(TopPositions) > 1
    /\ Len(torrents_to_fetch) = Cardinality(TopPositions) + SafetyNetCount

\* search() has decoded its query
Decoded == pc \in {"pass", "fetch", "loop", "merge", "resolve", "done", "raised"}
           /\ pass_no >= 1

\* C5: when the conservative query q1 is empty, no page fetch is issued for
\* any pass and nothing is emitted
C5_EmptyConservativeAborts ==
    (engine \in TwoPassEngines /\ Decoded /\ ConservativeQuery(decoded_what) = <<>>)
        => (fetch_log = <<>> /\ emitted = <<>>)

\* the lowercased aggressive query differs from the lowercased conservative one
QueriesDiffer ==
    Lower(AggressiveQuery(decoded_what)) # Lower(ConservativeQuery(decoded_what))

\* the identity keys of a list of torrents
KeysOf(seq) == {IdentityKey(seq[i]) : i \in 1..Len(seq)}

\* C6: pass 2 issues page fetches if and only if the lowercased cleaned
\* queries differ; when they are equal there is no second round and the
\* candidates are exactly the pass-1 results
C6_Pass2IffQueriesDiffer ==
    (engine \in TwoPassEngines /\ PassesOver) =>
        /\ (2 \in PassesFetched) <=> QueriesDiffer
        /\ ~QueriesDiffer =>
              /\ pass_results[2] = <<>>
              /\ pc # "merge" => KeysOf(final_candidates) = KeysOf(pass_results[1])

\* C6 as amended: pass 2 issues page fetches if and only if the lowercased
\* cleaned queries differ and the aggressive query is non-empty; otherwise
\* there is no second round and the candidates are the pass-1 results,
\* de-duplicated.  In every state a fetch of pass 2 has those two causes.
C6_Pass2IffDifferAndNonEmpty ==
    /\ (engine \in TwoPassEngines /\ 2 \in PassesFetched) =>
          (QueriesDiffer /\ AggressiveQuery(decoded_what) # <<>>)
    /\ (engine \in {"leetx", "bitsearch", "torrentgalaxy_one"} /\ PassesOver) =>
          /\ (2 \in PassesFetched)
                <=> (QueriesDiffer /\ AggressiveQuery(decoded_what) # <<>>)
          /\ (2 \notin PassesFetched) =>
                /\ pass_results[2] = <<>>
                /\ pc # "merge" => KeysOf(final_candidates) = KeysOf(pass_results[1])

\* C6's cases: the queries differ and the aggressive one is empty, so pass 2
\* fetches nothing although pass 1 did
C6_Witness ==
    /\ engine = "leetx"
    /\ PassesOver
    /\ QueriesDiffer
    /\ AggressiveQuery(decoded_what) = <<>>
    /\ PassesFetched = {1}

C8_PageFetchFailsSoft ==
    engine \in HtmlEngines =>
        /\ pc # "raised"
        /\ site \in {"down", "empty"} =>
              \A n \in 1..Len(pass_results) : pass_results[n] = <<>>

\* C11: with an empty keyword list the scorer awards no completeness bonus:
\* the score of every title is 0, in every plugin's scorer
C11_EmptyKeywordsScoreZero ==
    (fnPc = "done" /\ fnRet.keywords = <<>>) =>
        (fnRet.score1 = 0 /\ fnRet.score2 = 0)

\* C12: the keywords of "a I of cat" are exactly the multiset {"cat": 1}
C12_KeywordFloorCatOnly ==
    (fnPc \in {"keywords", "done"} /\ fnArgs.query = FloorQuery) =>
        fnRet.keywords = <<<<"c","a","t">>>>

\* C12 as amended: the keywords of "a I of cat" are the words longer than
\* one character, lowercased, in order: "of" and "cat", each once
C12_KeywordFloorOfCat ==
    (fnPc \in {"keywords", "done"} /\ fnArgs.query = FloorQuery) =>
        fnRet.keywords = <<<<"o","f">>, <<"c","a","t">>>>

\* C12's case: the keywords of "a I of cat" have been extracted
C12_Witness ==
    /\ fnPc = "keywords"
    /\ fnArgs.query = FloorQuery
    /\ Len(fnRet.keywords) = 2

(***************************************************************************)
(* The cleaners on their own: a string is cleaned, then the result is      *)
(* cleaned again.                                                          *)
(***************************************************************************)
\* the number of pieces an input string is put together from
MaxPieces == 3

\* the pieces: words, whitespace, symbols, bracketed years (one with an
\* unlike pair of brackets) and the halves of a bracketed year
CleanPieces ==
    {<<>>, <<"a","b">>, <<" ">>, <<"\t"," ">>, <<"(","1","9","9","9",")">>,
     <<"[","2","0","1","0","]">>, <<"(","2","0","1","0","]">>,
     <<"(","1","9">>, <<"9","9",")">>,
     <<"X",":">>, <<"&">>}

\* "Inception (2010)"
InceptionQuery ==
    <<"I","n","c","e","p","t","i","o","n"," ","(","2","0","1","0",")">>
\* "B-Movie: Lust & Sound"
BMovieQuery ==
    <<"B","-","M","o","v","i","e",":"," ","L","u","s","t"," ","&"," ",
      "S","o","u","n","d">>

CleanInputs ==
    {Concat(f) : f \in [1..MaxPieces -> CleanPieces]}
    \cup {InceptionQuery, BMovieQuery}

InitClean ==
    /\ engine = "leetx"
    /\ what = <<>>
    /\ cat = "all"
    /\ site = "ok"
    /\ bs4 = TRUE
    /\ pc = "idle"
    /\ exc = "none"
    /\ decoded_what = <<>>
    /\ search_keywords = <<>>
    /\ search_query = <<>>
    /\ pass_no = 0
    /\ pass_results = <<>>
    /\ running = {}
    /\ page_idx = 0
    /\ pass_torrents = <<>>
    /\ fetch_log = <<>>
    /\ final_candidates = <<>>
    /\ torrents_to_fetch = <<>>
    /\ task = <<>>
    /\ emitted = <<>>
    /\ fnPc = "args"
    /\ fnArgs \in [x : CleanInputs]
    /\ fnRet = <<>>

\* pass1_query = self._get_conservative_query(decoded_what) and
\* pass2_query = self._get_aggressive_query(decoded_what)
FnClean ==
    /\ fnPc = "args"
    /\ fnRet' = [conservative |-> ConservativeQuery(fnArgs.x),
                 aggressive |-> AggressiveQuery(fnArgs.x)]
    /\ fnPc' = "cleaned"
    /\ UNCHANGED <<searchVars, fnArgs>>

\* each cleaner applied to its own result
FnCleanAgain ==
    /\ fnPc = "cleaned"
    /\ fnRet' = [conservative |-> fnRet.conservative,
                 aggressive |-> fnRet.aggressive,
                 conservative2 |-> ConservativeQuery(fnRet.conservative),
                 aggressive2 |-> AggressiveQuery(fnRet.aggressive)]
    /\ fnPc' = "recleaned"
    /\ UNCHANGED <<searchVars, fnArgs>>

NextClean ==
    \/ FnClean
    \/ FnCleanAgain

SpecClean == InitClean /\ [][NextClean]_vars

\* C13: cleaning is idempotent: the conservative cleaner applied to its own
\* result returns it unchanged, and so does the aggressive cleaner
C13_CleaningIdempotent ==
    fnPc = "recleaned" =>
        /\ fnRet.conservative2 = fnRet.conservative
        /\ fnRet.aggressive2 = fnRet.aggressive

\* C14: the aggressive query holds only characters of [A-Za-z0-9 ], has no
\* leading or trailing space and no two consecutive spaces
C14_AggressiveAlphabet ==
    fnPc \in {"cleaned", "recleaned"} =>
        LET q == fnRet.aggressive
        IN  /\ \A i \in 1..Len(q) : q[i] \in Digits \cup Uppers \cup Lowers \cup {" "}
            /\ q # <<>> => (q[1] # " " /\ q[Len(q)] # " ")
            /\ \A i \in 1..(Len(q) - 1) : ~(q[i] = " " /\ q[i + 1] = " ")

\* C14's case: an input that starts with whitespace and holds a symbol
\* between two words has been cleaned to the two words
C14_Witness ==
    /\ fnPc = "cleaned"
    /\ fnArgs.x = <<"\t"," ","X",":","a","b">>
    /\ fnRet.aggressive = <<"X"," ","a","b">>

\* a 4-digit year enclosed in parentheses or brackets starts at index k of x
BracketedYearStarts(x, k) ==
    /\ k >= 1
    /\ k + 5 <= Len(x)
    /\ x[k] \in {"(", "["}
    /\ \A d \in 1..4 : x[k + d] \in Digits
    /\ x[k + 5] \in {")", "]"}

\* index i of x lies in a bracketed year
InBracketedYear(x, i) == \E k \in (i - 5)..i : BracketedYearStarts(x, k)

\* the indices of the characters of x that stay: outside every bracketed
\* year, and no whitespace
StayingIndices(x) ==
    SelectSeq([i \in 1..Len(x) |-> i],
              LAMBDA i : ~InBracketedYear(x, i) /\ x[i] \notin {" ", "\t"})

\* x without its bracketed years, every whitespace run between two staying
\* characters turned into one space, nothing else changed
WithoutYears(x) ==
    LET stay == StayingIndices(x)
    IN  Concat([j \in 1..Len(stay) |->
            (IF j > 1 /\ \E m \in (stay[j - 1] + 1)..(stay[j] - 1) : x[m] \in {" ", "\t"}
             THEN <<" ">> ELSE <<>>)
            \o <<x[stay[j]]>>])

\* C15: the conservative query is the input without its bracketed 4-digit
\* years, whitespace runs collapsed to one space and trimmed, no other
\* character changed; "Inception (2010)" gives "Inception" and
\* "B-Movie: Lust & Sound" is returned as it is
C15_ConservativeStripsYears ==
    fnPc \in {"cleaned", "recleaned"} =>
        /\ fnRet.conservative = WithoutYears(fnArgs.x)
        /\ fnArgs.x = InceptionQuery =>
              fnRet.conservative = <<"I","n","c","e","p","t","i","o","n">>
        /\ fnArgs.x = BMovieQuery => fnRet.conservative = BMovieQuery

\* C15's case: a bracketed year between a word and whitespace has been removed
C15_Witness ==
    /\ fnPc = "cleaned"
    /\ fnArgs.x = <<"a","b","[","2","0","1","0","]","\t"," ">>
    /\ fnRet.conservative = <<"a","b">>

(***************************************************************************)
(* C16: the end-to-end scenario "Breaking Bad (2008) S02E07".              *)
(***************************************************************************)
\* the title holds the token as a whole word: an occurrence in the
\* lowercased title with no letter or digit on either side
HasToken(title, token) ==
    LET low == Lower(title)
    IN  \E i \in Occurrences(low, token) :
            /\ i = 1 \/ ~IsAlnum(low[i - 1])
            /\ i + Len(token) > Len(low) \/ ~IsAlnum(low[i + Len(token)])

\* breaking, bad, s02e07
ScenarioTokens ==
    {<<"b","r","e","a","k","i","n","g">>,
     <<"b","a","d">>,
     <<"s","0","2","e","0","7">>}

\* breaking, bad, 2008, s02e07: the words of length > 1 of the decoded query
ScenarioTokensWithYear == ScenarioTokens \cup {<<"2","0","0","8">>}

HasTokens(t, tokens) == \A token \in tokens : HasToken(t.name, token)

\* every candidate with all the tokens scores at least 100 and stands before
\* every candidate that lacks one of them
TokensRankFirst(tokens) ==
    \A i \in 1..Len(final_candidates) :
        HasTokens(final_candidates[i], tokens) =>
            /\ final_candidates[i].score >= 100
            /\ \A j \in 1..Len(final_candidates) :
                   ~HasTokens(final_candidates[j], tokens) => i < j

InScenario == engine \in HtmlEngines /\ what = BreakingBadQuery /\ final_candidates # <<>>

\* C16: for the query "Breaking Bad (2008) S02E07", every candidate whose
\* title contains all of the tokens breaking, bad and s02e07 scores at least
\* 100 and is ordered before every candidate lacking one of those tokens
C16_ThreeTokensRankFirst == InScenario => TokensRankFirst(ScenarioTokens)

\* C16 as amended: the keywords of the query are breaking, bad, 2008 and
\* s02e07; every candidate whose title contains all four scores at least 100
\* and is ordered before every candidate lacking one of the four
C16_FourTokensRankFirst == InScenario => TokensRankFirst(ScenarioTokensWithYear)

\* the scenario was searched and sorted: the episode with the year leads
\* with a score above 100, the same episode without the year stands last,
\* behind another episode
C16_Witness ==
    /\ InScenario
    /\ pc = "resolve"
    /\ Len(final_candidates) = 3
    /\ final_candidates[1].desc_link = "/b/2"
    /\ final_candidates[1].score = 104
    /\ final_candidates[2].desc_link = "/b/3"
    /\ final_candidates[3].desc_link = "/b/1"
    /\ final_candidates[3].score = 3
    /\ HasTokens(final_candidates[3], ScenarioTokens)
    /\ ~HasTokens(final_candidates[2], ScenarioTokens)

(***************************************************************************)
(* C17: what is emitted was selected.                                      *)
(***************************************************************************)
\* the positions of final_candidates that are selected: the top tier and the
\* first SafetyNetCount positions of the lower tier
SelectedPositions ==
    LET top == TopPositions
        lower == (1..Len(final_candidates)) \ top
    IN  top \cup {i \in lower : Cardinality({j \in lower : j < i}) < SafetyNetCount}

\* the emitted records that belong to the candidate at position i
EmittedOf(i) ==
    {k \in 1..Len(emitted) : emitted[k].desc_link = final_candidates[i].desc_link}

\* C17: every emitted record corresponds to a candidate selected as top tier
\* or safety net in that search; each selected candidate is emitted at most
\* once and a candidate that was not selected is never emitted, whatever the
\* completion order of the resolution tasks
C17_EmittedWereSelected ==
    engine \in HtmlEngines =>
        IF final_candidates = <<>> THEN emitted = <<>>
        ELSE LET selected == SelectedPositions
             IN  /\ \A k \in 1..Len(emitted) : \E i \in selected : k \in EmittedOf(i)
                 /\ \A i \in selected : Cardinality(EmittedOf(i)) <= 1
                 /\ \A i \in 1..Len(final_candidates) :
                        i \notin selected => EmittedOf(i) = {}

\* C17's case: the search is over, candidates were left out of the
\* selection, and two selected candidates were emitted in the reverse of
\* their selection order
C17_Witness ==
    /\ engine \in HtmlEngines
    /\ pc = "done"
    /\ final_candidates # <<>>
    /\ SelectedPositions # 1..Len(final_candidates)
    /\ Len(emitted) >= 2
    /\ emitted[1].desc_link = torrents_to_fetch[2].desc_link
    /\ emitted[2].desc_link = torrents_to_fetch[1].desc_link

(***************************************************************************)
(* C18: the name of an emitted record.                                     *)
(***************************************************************************)
\* the characters a sanitized title holds none of
ForbiddenChars == {"\\", "/", "*", "?", ":", "\"", "<", ">", "|"}

\* the title with exactly the forbidden characters removed
Sanitized(title) == SelectSeq(title, LAMBDA c : c \notin ForbiddenChars)

\* the title of the selected candidate a record was emitted for
TitleOf(record) ==
    LET i == CHOOSE i \in 1..Len(torrents_to_fetch) :
                 torrents_to_fetch[i].desc_link = record.desc_link
    IN  torrents_to_fetch[i].name

\* C18: the name of every emitted record holds none of the characters
\* \ / * ? : " < > | and equals the candidate's title with exactly those
\* characters removed
C18_EmittedNameSanitized ==
    engine \in HtmlEngines =>
        \A k \in 1..Len(emitted) :
            /\ \A n \in 1..Len(emitted[k].name) : emitted[k].name[n] \notin ForbiddenChars
            /\ emitted[k].name = Sanitized(TitleOf(emitted[k]))

(***************************************************************************)
(* C19: the pool of the link resolution.                                   *)
(***************************************************************************)
\* the resolution tasks in flight
InFlight == {i \in 1..Len(task) : task[i] = "running"}

\* C19: in every reachable state of a search at most MAX_MAGNET_WORKERS (10)
\* resolution tasks are in flight, and every selected candidate is submitted
\* to the pool: there is one task per selected candidate, and each has
\* completed when search() returns
C19_BoundedResolutionPool ==
    engine \in HtmlEngines =>
        /\ Cardinality(InFlight) <= 10
        /\ pc \in {"resolve", "done"} => Len(task) = Len(torrents_to_fetch)
        /\ pc = "done" => \A i \in 1..Len(task) : task[i] = "done"

\* C19's case: more candidates are selected than the pool has workers; ten
\* tasks are in flight and the others wait
C19_Witness ==
    /\ engine \in HtmlEngines
    /\ pc = "resolve"
    /\ Len(torrents_to_fetch) > 10
    /\ Cardinality(InFlight) = 10
    /\ \E i \in 1..Len(task) : task[i] = "queued"

(***************************************************************************)
(* C20: the order of the passes and of the link resolution.                *)
(***************************************************************************)
\* the passes search() is written with
PassCount == IF engine = "torrentproject" THEN 3 ELSE 2

\* the page fetches this step starts: the entries it adds to fetch_log
FetchesStarted == {fetch_log'[k] : k \in (Len(fetch_log) + 1)..Len(fetch_log')}

\* this step submits the resolution tasks
ResolutionStarts == task = <<>> /\ task' # <<>>

\* a step in the order of search(): a fetch of pass n >= 2 starts when the
\* passes before are collected and none of their fetches runs; the
\* resolution starts when every pass is collected
PassOrderStep ==
    engine \in HtmlEngines =>
        /\ \A f \in FetchesStarted :
               f[1] >= 2 =>
                   /\ Len(pass_results) >= f[1] - 1
                   /\ \A g \in 1..Len(fetch_log) : fetch_log[g][1] < f[1] => running = {}
        /\ ResolutionStarts =>
               /\ Len(pass_results) = PassCount
               /\ running = {}
               /\ pass_torrents = <<>>

\* C20: no page fetch of pass 2 (of a later pass) starts before every page
\* fetch of the pass before has completed and its results have been
\* collected; no link resolution starts before all passes have completed
C20_PassOrdering == [][PassOrderStep]_vars

\* C20's case: both passes of a pool engine fetched two pages each, found
\* rows, and the resolution has started
C20_Witness ==
    /\ engine \in PoolEngines
    /\ pc = "resolve"
    /\ \E k \in 1..Len(fetch_log) : fetch_log[k] = <<1, 2>>
    /\ \E k \in 1..Len(fetch_log) : fetch_log[k] = <<2, 2>>
    /\ pass_results[1] # <<>>
    /\ pass_results[2] # <<>>
    /\ task # <<>>

(***************************************************************************)
(* The resolution workers of bitsearch and the counter they share:         *)
(* _fetch_magnet_link runs in the pool's threads and ends a successful     *)
(* resolution with self.test_results['magnet_success'] += 1, a load, an    *)
(* add and a store between which another thread may run.                   *)
(***************************************************************************)
\* the number of candidates submitted to the pool
MaxTasks == 3

\* the detail pages of the candidates: two with a magnet, one that raises,
\* one without a magnet
RaceLinks == {"/t/1", "/t/2", "/f/1", "/f/3"}

\* the variables of search() at rest, in the harness of one function
SearchAtRest(eng) ==
    /\ engine = eng
    /\ what = <<>>
    /\ cat = "all"
    /\ site = "ok"
    /\ bs4 = TRUE
    /\ pc = "idle"
    /\ exc = "none"
    /\ decoded_what = <<>>
    /\ search_keywords = <<>>
    /\ search_query = <<>>
    /\ pass_no = 0
    /\ pass_results = <<>>
    /\ running = {}
    /\ page_idx = 0
    /\ pass_torrents = <<>>
    /\ fetch_log = <<>>
    /\ final_candidates = <<>>
    /\ torrents_to_fetch = <<>>
    /\ task = <<>>
    /\ emitted = <<>>

InitRace ==
    /\ SearchAtRest("bitsearch")
    /\ fnPc = "args"
    /\ fnArgs \in [torrents : [1..MaxTasks -> [desc_link : RaceLinks]]]
    /\ fnRet = <<>>

\* search() resets test_results and submits every candidate; the pool is
\* wider than the candidates are many, so each gets a thread at once
RaceSubmit ==
    /\ fnPc = "args"
    /\ fnRet' = [magnet_success |-> 0,
                 worker |-> [i \in 1..MaxTasks |-> "fetch"],
                 loaded |-> [i \in 1..MaxTasks |-> 0]]
    /\ fnPc' = "pool"
    /\ UNCHANGED <<searchVars, fnArgs>>

\* worker i gets its detail page: with a magnet link it goes on to the
\* counter, otherwise it returns None
WorkerFetch(i) ==
    /\ fnPc = "pool"
    /\ fnRet.worker[i] = "fetch"
    /\ fnRet' = [fnRet EXCEPT
                   !.worker[i] = IF FetchMagnetLink("bitsearch", fnArgs.torrents[i]).found
                                 THEN "load" ELSE "returned"]
    /\ UNCHANGED <<searchVars, fnPc, fnArgs>>

\* worker i loads self.test_results['magnet_success']
WorkerLoad(i) ==
    /\ fnPc = "pool"
    /\ fnRet.worker[i] = "load"
    /\ fnRet' = [fnRet EXCEPT !.worker[i] = "store", !.loaded[i] = fnRet.magnet_success]
    /\ UNCHANGED <<searchVars, fnPc, fnArgs>>

\* worker i stores the value it loaded, plus one, and returns the torrent
WorkerStore(i) ==
    /\ fnPc = "pool"
    /\ fnRet.worker[i] = "store"
    /\ fnRet' = [fnRet EXCEPT !.worker[i] = "returned",
                              !.magnet_success = fnRet.loaded[i] + 1]
    /\ UNCHANGED <<searchVars, fnPc, fnArgs>>

\* the with block ends when every worker has returned
RaceReturn ==
    /\ fnPc = "pool"
    /\ \A i \in 1..MaxTasks : fnRet.worker[i] = "returned"
    /\ fnPc' = "done"
    /\ UNCHANGED <<searchVars, fnArgs, fnRet>>

NextRace ==
    \/ RaceSubmit
    \/ \E i \in 1..MaxTasks : WorkerFetch(i)
    \/ \E i \in 1..MaxTasks : WorkerLoad(i)
    \/ \E i \in 1..MaxTasks : WorkerStore(i)
    \/ RaceReturn

SpecRace == InitRace /\ [][NextRace]_vars

\* the resolutions that found a magnet link
SuccessfulResolutions ==
    {i \in 1..MaxTasks : DetailResponse(fnArgs.torrents[i].desc_link) = "magnet"}

\* C21: no two resolution tasks running at the same time read-modify-write
\* the same variable, so no update is lost: at the end of bitsearch's search
\* test_results['magnet_success'] is the number of successful resolutions
C21_NoLostUpdate ==
    fnPc = "done" => fnRet.magnet_success = Cardinality(SuccessfulResolutions)

(***************************************************************************)
(* download_torrent of leetx and torrentproject.  info is the link of an   *)
(* emitted record: its scheme ("magnet" for a magnet URI) and the rest.    *)
(* The output is what the function prints on stdout.                       *)
(***************************************************************************)
DownloadEngines == {"leetx", "torrentproject"}

DownloadInfos ==
    {[scheme |-> "magnet", ref |-> "/t/1"],
     [scheme |-> "https", ref |-> "/t/1"],
     [scheme |-> "https", ref |-> "/t/2"]}

\* what retrieve_url(info) gives: "raise", "empty" (''), a page with a
\* .torrent anchor and a magnet anchor, a page with a magnet anchor only,
\* a page with neither; a magnet URI is no page and gives "raise" or "empty"
DownloadPages == {"raise", "empty", "torrentfile", "magnet", "neither"}

PagesFor(info) == IF info.scheme = "magnet" THEN {"raise", "empty"} ELSE DownloadPages

InitDownload ==
    /\ engine \in DownloadEngines
    /\ what = <<>>
    /\ cat = "all"
    /\ site = "ok"
    /\ bs4 \in BOOLEAN
    /\ pc = "idle"
    /\ exc = "none"
    /\ decoded_what = <<>>
    /\ search_keywords = <<>>
    /\ search_query = <<>>
    /\ pass_no = 0
    /\ pass_results = <<>>
    /\ running = {}
    /\ page_idx = 0
    /\ pass_torrents = <<>>
    /\ fetch_log = <<>>
    /\ final_candidates = <<>>
    /\ torrents_to_fetch = <<>>
    /\ task = <<>>
    /\ emitted = <<>>
    /\ fnPc = "args"
    /\ \E info \in DownloadInfos :
          fnArgs \in [info : {info}, page : PagesFor(info)]
    /\ fnRet = <<>>

\* print(download_file(url)): the sink's line for url
SinkLine(url) == [line |-> "file", url |-> url]
\* print('')
EmptyLine == [line |-> "empty", url |-> <<>>]
\* torrentproject's print(f"{magnet} {info}")
MagnetLine(url) == [line |-> "magnet", url |-> url]

\* the head of download_torrent: leetx passes a magnet URI to download_file
\* and returns; otherwise, and in torrentproject always, retrieve_url(info)
\* is called
DownloadCall ==
    /\ fnPc = "args"
    /\ IF engine = "leetx" /\ fnArgs.info.scheme = "magnet"
       THEN /\ fnRet' = [fetches |-> <<>>, printed |-> <<SinkLine(fnArgs.info)>>,
                         raised |-> FALSE]
            /\ fnPc' = "done"
       ELSE /\ fnRet' = [fetches |-> <<fnArgs.info>>, printed |-> <<>>, raised |-> FALSE]
            /\ fnPc' = "fetching"
    /\ UNCHANGED <<searchVars, fnArgs>>

\* leetx behind retrieve_url: the first .torrent anchor, else the first
\* magnet anchor, else ''; any exception (BeautifulSoup missing included)
\* prints ''
LeetxDownloadOutput(page, has_bs4) ==
    CASE page = "raise" \/ ~has_bs4 -> <<EmptyLine>>
      [] page = "torrentfile" -> <<SinkLine([scheme |-> "https", ref |-> "file.torrent"])>>
      [] page = "magnet" -> <<SinkLine([scheme |-> "magnet", ref |-> "page"])>>
      [] OTHER -> <<EmptyLine>>

\* torrentproject behind retrieve_url: the first href="magnet:?..." of the
\* page is printed with info; without one nothing is printed; an exception
\* goes to stderr
TorrentprojectDownloadOutput(page, info) ==
    IF page \in {"torrentfile", "magnet"}
    THEN <<MagnetLine([scheme |-> "magnet", ref |-> "page"])>>
    ELSE <<>>

\* retrieve_url returns or raises, and download_torrent runs to its end
DownloadPage ==
    /\ fnPc = "fetching"
    /\ fnRet' = [fnRet EXCEPT
                   !.printed = IF engine = "leetx"
                               THEN LeetxDownloadOutput(fnArgs.page, bs4)
                               ELSE TorrentprojectDownloadOutput(fnArgs.page, fnArgs.info)]
    /\ fnPc' = "done"
    /\ UNCHANGED <<searchVars, fnArgs>>

\* the caller goes on
DownloadReturn ==
    /\ fnPc = "done"
    /\ fnPc' = "returned"
    /\ UNCHANGED <<searchVars, fnArgs, fnRet>>

NextDownload ==
    \/ DownloadCall
    \/ DownloadPage
    \/ DownloadReturn

SpecDownload == InitDownload /\ [][NextDownload]_vars

\* C22: download_torrent passes a magnet URI straight to the download sink
\* with no page fetch; otherwise the detail page is fetched exactly once and
\* either an extracted link or an empty line is output; no exception reaches
\* the caller
C22_DownloadPassThrough ==
    fnPc \in {"done", "returned"} =>
        /\ ~fnRet.raised
        /\ IF fnArgs.info.scheme = "magnet"
           THEN fnRet.fetches = <<>> /\ fnRet.printed = <<SinkLine(fnArgs.info)>>
           ELSE /\ fnRet.fetches = <<fnArgs.info>>
                /\ Len(fnRet.printed) = 1
                /\ fnRet.printed[1].line = "empty" \/ fnRet.printed[1].url # <<>>

(***************************************************************************)
(* C23: the seed count of a scored candidate.                              *)
(***************************************************************************)
\* the raw seeds text is a count: decimal digits, spaces around them allowed
IsCount(seeds) == IsDigitStr(Strip(seeds))

\* C23: whatever the raw seeds value of a candidate (empty, non-numeric,
\* signed, with separators), the scoring step assigns an integer seed count
\* that is non-negative and is 0 when the value cannot be parsed
C23_SeedCountNonNegative ==
    (engine \in HtmlEngines /\ pc \in {"resolve", "done"}) =>
        \A i \in 1..Len(final_candidates) :
            /\ final_candidates[i].seeds_int >= 0
            /\ ~IsCount(final_candidates[i].seeds) => final_candidates[i].seeds_int = 0

(***************************************************************************)
(* C24: the order of the candidates and the safety net.                    *)
(***************************************************************************)
\* (score, seeds) of a is greater than or equal to that of b
RanksAtLeast(a, b) ==
    \/ a.score > b.score
    \/ a.score = b.score /\ a.seeds_int >= b.seeds_int

\* C24: the candidates are ordered descending by (score, seed count) before
\* the selection, and the safety net is a prefix of the lower tier in that
\* order: every selected safety-net candidate has (score, seeds) greater than
\* or equal to that of every unselected candidate
C24_SortedAndSafetyNetPrefix ==
    (engine \in HtmlEngines /\ pc \in {"resolve", "done"} /\ final_candidates # <<>>) =>
        LET n == Len(final_candidates)
            selected == SelectedPositions
            top == TopPositions
        IN  /\ \A i \in 1..n : \A j \in (i + 1)..n :
                   RanksAtLeast(final_candidates[i], final_candidates[j])
            /\ \A i \in selected \ top :
                   /\ \E k \in 1..Len(torrents_to_fetch) :
                          torrents_to_fetch[k] = final_candidates[i]
                   /\ \A j \in (1..n) \ selected :
                          RanksAtLeast(final_candidates[i], final_candidates[j])
            /\ \A j \in (1..n) \ selected :
                   \A k \in 1..Len(torrents_to_fetch) :
                       torrents_to_fetch[k] # final_candidates[j]

\* C24's case: the safety net cuts a lower tier whose candidates have one
\* score and were listed by the site in ascending order of seeds
C24_Witness ==
    /\ engine \in HtmlEngines
    /\ pc = "resolve"
    /\ final_candidates # <<>>
    /\ LET n == Len(final_candidates)
           selected == SelectedPositions
       IN  /\ selected # 1..n
           /\ \E i \in selected \ TopPositions : \E j \in (1..n) \ selected :
                  /\ final_candidates[i].score = final_candidates[j].score
                  /\ final_candidates[i].seeds_int > final_candidates[j].seeds_int
                  /\ final_candidates[i].desc_link = "/f/9"
                  /\ final_candidates[j].desc_link = "/f/1"

(***************************************************************************)
(* C25: the page fetches of one pass.                                      *)
(***************************************************************************)
\* the page budget of a pass
PageBudget ==
    CASE engine = "torrentgalaxy_one" ->
           (IF cat = "movies" THEN 3 ELSE IF cat = "tv" THEN 4 ELSE 2)
      [] engine \in {"leetx", "x1337xtube"} -> 2
      [] OTHER -> 3

\* a step that starts page fetches starts every page of the pass, and no
\* more fetches are in flight than the budget
AllPagesAtOnce ==
    /\ FetchesStarted # {} =>
          FetchesStarted = {<<pass_no, p>> : p \in 1..PageBudget}
    /\ Cardinality(running') <= PageBudget

\* a step starts at most one page fetch and none is in flight beside it
OnePageAtATime ==
    /\ Cardinality(FetchesStarted) <= 1
    /\ running' = {}

EveryEngineAllPagesAtOnce == engine \in HtmlEngines => AllPagesAtOnce

PoolAtOnceLoopInTurn ==
    /\ engine \in PoolEngines => AllPagesAtOnce
    /\ engine \in LoopEngines => OnePageAtATime

\* C25: within one search pass all configured pages are fetched
\* concurrently (page k+1 is started without waiting for page k), and the
\* fetches in flight are bounded by the page budget of the pass
C25_PagesFetchedConcurrently == [][EveryEngineAllPagesAtOnce]_vars

\* C25 as amended: leetx, x1337xtube and torrentgalaxy_one start every page
\* of a pass at once, bounded by the budget (torrentgalaxy_one: movies 3,
\* tv 4, otherwise 2; the others 2); bitsearch and torrentproject request
\* the pages of a pass one at a time
C25_PoolEnginesFetchConcurrently == [][PoolAtOnceLoopInTurn]_vars

\* C25's case: torrentgalaxy_one has the four pages of a tv pass in flight
C25_Witness ==
    /\ engine = "torrentgalaxy_one"
    /\ cat = "tv"
    /\ pc = "fetch"
    /\ running = 1..4

(***************************************************************************)
(* C26: the emission order of the API engines.                             *)
(***************************************************************************)
\* s starts with prefix
StartsWith(s, prefix) ==
    Len(prefix) <= Len(s) /\ SubSeq(s, 1, Len(prefix)) = prefix

\* term stands in s as a whole word: an occurrence with a word boundary
\* before it and behind it
HoldsWord(s, term) ==
    \E i \in 1..(Len(s) - Len(term) + 1) :
        /\ SubSeq(s, i, i + Len(term) - 1) = term
        /\ BoundaryAt(s, i)
        /\ BoundaryAt(s, i + Len(term))

\* term stands somewhere in s
HoldsText(s, term) ==
    \E i \in 1..(Len(s) - Len(term) + 1) : SubSeq(s, i, i + Len(term) - 1) = term

\* the sort rank of a title for the cleaned search term
RankOf(title, term) ==
    LET t == Lower(title)
        q == Lower(term)
    IN  IF StartsWith(t, q) THEN 1
        ELSE IF HoldsWord(t, q) THEN 2
        ELSE IF HoldsText(t, q) THEN 3
        ELSE 4

\* the results the engine collected, in the order the API returned them
ApiCollected ==
    IF engine = "piratebay"
    THEN CollectResults(ApiResponse(site, search_query).items)
    ELSE YtsCollect(site, search_query)

\* the collected results of rank r, in the API's order
CollectedOfRank(collected, r) ==
    SelectSeq(collected, LAMBDA x : RankOf(x.name, search_query) = r)

\* what identifies a result: its link
LinksOf(seq) == [i \in 1..Len(seq) |-> seq[i].link]

\* C26: the API engines emit their results in non-decreasing sort rank
\* (1 title starts with the term, 2 holds it as a whole word, 3 holds it as
\* a substring, else 4); results of equal rank keep the order in which the
\* API returned them, and every collected result is emitted exactly once
C26_EmittedInRankOrder ==
    (engine \in ApiEngines /\ pc = "done" /\ emitted # <<>>) =>
        LET collected == ApiCollected
        IN  LinksOf(emitted) =
                LinksOf(CollectedOfRank(collected, 1) \o CollectedOfRank(collected, 2)
                        \o CollectedOfRank(collected, 3) \o CollectedOfRank(collected, 4))

\* C26's case: yts_mx emitted results of the ranks 1, 2, 3 and 4, two of
\* them of rank 4, and the API had not returned them in that order
C26_Witness ==
    /\ engine = "yts_mx"
    /\ pc = "done"
    /\ LET collected == ApiCollected
       IN  /\ \A r \in 1..3 : CollectedOfRank(collected, r) # <<>>
           /\ Len(CollectedOfRank(collected, 4)) >= 2
           /\ LinksOf(emitted) # LinksOf(collected)
           /\ Len(emitted) = Len(collected)

(***************************************************************************)
(* torrentproject.MyHTMLParser.  A page is a sequence of the events the    *)
(* HTMLParser base class hands to handle_starttag, handle_endtag and       *)
(* handle_data; texts are short strings.                                   *)
(***************************************************************************)
\* the largest number of blocks of markup in a page
MaxBlocks == 4

StartTag(tag, id, class, title, href) ==
    [kind |-> "start", tag |-> tag, id |-> id, class |-> class, title |-> title,
     href |-> href, text |-> ""]
EndTag(tag) ==
    [kind |-> "end", tag |-> tag, id |-> "", class |-> "", title |-> "", href |-> "",
     text |-> ""]
Data(text) ==
    [kind |-> "data", tag |-> "", id |-> "", class |-> "", title |-> "", href |-> "",
     text |-> text]

Span == StartTag("span", "", "", "", "")
\* a span with text, closed
SpanWith(text) == <<Span, Data(text), EndTag("span")>>

\* one result row: the name in a link, a verified mark, three more cells
\* (the second in two texts), the date and the size
ResultRow(name, href, date, size) ==
    <<StartTag("div", "", "", "", ""), Span, StartTag("a", "", "", "", href), Data(name),
      EndTag("a"), EndTag("span"), StartTag("span", "", "", "verified", ""),
      EndTag("span")>>
    \o SpanWith(" ") \o SpanWith("7")
    \o <<Span, Data("1"), Data("2"), EndTag("span")>>
    \o SpanWith(date) \o size \o <<EndTag("div")>>

\* the blocks a page is made of
PageBlocks ==
    {<<StartTag("div", "similarfiles", "", "", "")>>,
     <<StartTag("div", "nav", "", "", "")>>,
     <<StartTag("div", "", "gac_bb", "", ""), StartTag("a", "", "", "", "/x/3"),
       Data("ad"), EndTag("a"), EndTag("div")>>,
     ResultRow("ab cd", "/t0-1", "2020-01-01 00:00:00", SpanWith("1 GB")),
     ResultRow("Nome", "/t0-2", "3 days ago", SpanWith("Size")),
     ResultRow("-1", "/t0-2", "soon", <<Span, Data("-"), Data("1"), EndTag("span")>>)}

\* the pages: up to MaxBlocks blocks
Pages ==
    UNION {{Concat(f) : f \in [1..n -> PageBlocks]} : n \in 0..MaxBlocks}

InitParser ==
    /\ SearchAtRest("torrentproject")
    /\ fnPc = "args"
    /\ fnArgs \in [events : Pages]
    /\ fnRet = <<>>

\* get_single_data()
GetSingleData ==
    [name |-> "-1", seeds |-> "-1", leech |-> "-1", size |-> "-1", link |-> "-1",
     desc_link |-> "-1", pub_date |-> "-1"]

\* infoMap: the span position of a key
InfoMap ==
    [name |-> 0, torrLink |-> 0, seeds |-> 2, leech |-> 3, pub_date |-> 4, size |-> 5]

\* the keys of infoMap, in the order of the dict
InfoKeys == <<"name", "torrLink", "seeds", "leech", "pub_date", "size">>

\* MyHTMLParser.__init__; pos counts the events handled
ParserCreate ==
    /\ fnPc = "args"
    /\ fnRet' = [insideResults |-> FALSE, insideDataDiv |-> FALSE,
                 pageComplete |-> FALSE, spanCount |-> -1,
                 singleResData |-> GetSingleData, pageRes |-> <<>>,
                 fullResData |-> <<>>, pos |-> 0]
    /\ fnPc' = "feed"
    /\ UNCHANGED <<searchVars, fnArgs>>

\* the event feed() hands over next
NextEvent == fnArgs.events[fnRet.pos + 1]

HasEvent(kind) ==
    /\ fnPc = "feed"
    /\ fnRet.pos < Len(fnArgs.events)
    /\ NextEvent.kind = kind

\* 'nav' in attributes.get('id', '')
IdHoldsNav(id) == id \in {"nav", "topnav"}

\* re.match(r'^/t[0-4]-', href)
IsCatalogHref(href) == href \in {"/t0-1", "/t0-2"}

\* handle_starttag
HandleStartTag ==
    /\ HasEvent("start")
    /\ LET e == NextEvent
           complete == fnRet.pageComplete \/ (e.tag = "div" /\ IdHoldsNav(e.id))
           results == fnRet.insideResults \/ (e.tag = "div" /\ e.id = "similarfiles")
           opensData == e.tag = "div" /\ results /\ e.class # "gac_bb"
           dataDiv == fnRet.insideDataDiv \/ opensData
           spans == IF ~opensData /\ e.tag = "span" /\ fnRet.insideDataDiv
                       /\ e.title # "verified"
                    THEN fnRet.spanCount + 1 ELSE fnRet.spanCount
           linked == dataDiv /\ e.tag = "a" /\ IsCatalogHref(e.href)
           single == fnRet.singleResData
       IN  fnRet' = [fnRet EXCEPT
                       !.pageComplete = complete,
                       !.insideResults = results,
                       !.insideDataDiv = dataDiv,
                       !.spanCount = spans,
                       !.singleResData =
                           [single EXCEPT
                              !.link = IF linked /\ InfoMap.torrLink = spans
                                       THEN "url" \o e.href ELSE single.link,
                              !.desc_link = IF linked /\ InfoMap.name = spans
                                            THEN "url" \o e.href ELSE single.desc_link],
                       !.pos = fnRet.pos + 1]
    /\ UNCHANGED <<searchVars, fnPc, fnArgs>>

\* name.lower()
LowerText(text) == IF text = "Nome" THEN "nome" ELSE text

\* ValidRecord without the test for the header row 'nome'
ValidRecordAnyName(single) ==
    /\ single.name # "-1"
    /\ single.size # "-1"
    /\ single.desc_link # "-1" \/ single.link # "-1"

\* "Only process valid torrents"
ValidRecord(single) ==
    /\ single.name # "-1"
    /\ single.size # "-1"
    /\ LowerText(single.name) # "nome"
    /\ single.desc_link # "-1" \/ single.link # "-1"

\* "Convert date to timestamp": an absolute date becomes a number, any
\* other text stays
WithTimestamp(single) ==
    IF single.pub_date = "2020-01-01 00:00:00"
    THEN [single EXCEPT !.pub_date = "1577836800"]
    ELSE single

\* handle_endtag
HandleEndTag ==
    /\ HasEvent("end")
    /\ IF ~fnRet.pageComplete /\ NextEvent.tag = "div"
       THEN LET keep == ValidRecord(fnRet.singleResData)
                record == WithTimestamp(fnRet.singleResData)
            IN  fnRet' = [fnRet EXCEPT
                            !.insideDataDiv = FALSE,
                            !.spanCount = -1,
                            !.pageRes = IF keep THEN Append(fnRet.pageRes, record)
                                        ELSE fnRet.pageRes,
                            !.fullResData = IF keep THEN Append(fnRet.fullResData, record)
                                            ELSE fnRet.fullResData,
                            !.singleResData = GetSingleData,
                            !.pos = fnRet.pos + 1]
       ELSE fnRet' = [fnRet EXCEPT !.pos = fnRet.pos + 1]
    /\ UNCHANGED <<searchVars, fnPc, fnArgs>>

\* data.strip()
StripText(text) == IF text = " " THEN "" ELSE text

RECURSIVE StoreData(_, _, _, _)
\* the loop over infoMap.items() of handle_data, from the k-th key on
StoreData(single, spans, text, k) ==
    IF k > Len(InfoKeys) THEN single
    ELSE LET key == InfoKeys[k]
             stored == IF /\ spans = InfoMap[key]
                          /\ key \in DOMAIN single
                          /\ StripText(text) # ""
                       THEN IF single[key] = "-1"
                            THEN [single EXCEPT ![key] = StripText(text)]
                            ELSE IF key # "name"
                            THEN [single EXCEPT ![key] = single[key] \o StripText(text)]
                            ELSE single
                       ELSE single
         IN  StoreData(stored, spans, text, k + 1)

\* handle_data
HandleData ==
    /\ HasEvent("data")
    /\ fnRet' = [fnRet EXCEPT
                   !.singleResData =
                       IF fnRet.insideDataDiv
                       THEN StoreData(fnRet.singleResData, fnRet.spanCount,
                                      NextEvent.text, 1)
                       ELSE fnRet.singleResData,
                   !.pos = fnRet.pos + 1]
    /\ UNCHANGED <<searchVars, fnPc, fnArgs>>

\* parser.close() behind the last event
ParserClose ==
    /\ fnPc = "feed"
    /\ fnRet.pos = Len(fnArgs.events)
    /\ fnPc' = "closed"
    /\ UNCHANGED <<searchVars, fnArgs, fnRet>>

NextParser ==
    \/ ParserCreate
    \/ HandleStartTag
    \/ HandleEndTag
    \/ HandleData
    \/ ParserClose

SpecParser == InitParser /\ [][NextParser]_vars

\* the parser has been built and fed some events
ParserFed == fnPc \in {"feed", "closed"}

\* the event handled last was a div end tag
AfterDivEnd ==
    /\ ParserFed
    /\ fnRet.pos > 0
    /\ fnArgs.events[fnRet.pos].kind = "end"
    /\ fnArgs.events[fnRet.pos].tag = "div"

\* every record of pageRes is a complete one, and spanCount is -1 behind a
\* div end tag handled before the page was complete
ParserRecordsComplete ==
    ParserFed =>
        /\ \A i \in 1..Len(fnRet.pageRes) :
               LET r == fnRet.pageRes[i]
               IN  /\ r.name # "-1"
                   /\ r.size # "-1"
                   /\ r.name \notin {"nome", "Nome"}
                   /\ r.desc_link # "-1" \/ r.link # "-1"
        /\ AfterDivEnd /\ ~fnRet.pageComplete => fnRet.spanCount = -1

\* a step of a complete page leaves pageRes alone and the page complete
NoAppendOncePageComplete ==
    ParserFed /\ fnRet.pageComplete =>
        /\ fnRet'.pageRes = fnRet.pageRes
        /\ fnRet'.pageComplete

\* C27: for every sequence of start-tag, end-tag and data events, every record
\* appended to pageRes has a name other than '-1' and 'nome', a size other than
\* '-1' and one of desc_link and link set; spanCount is -1 after every div end
\* tag handled before the page is complete; and once a div start tag whose id
\* holds 'nav' has been seen, no record is appended any more.
C27_ParserRecords ==
    /\ []ParserRecordsComplete
    /\ [][NoAppendOncePageComplete]_vars

\* a page with a record appended, then the nav div, then a further complete
\* result row whose closing div left pageRes alone
C27_Witness ==
    /\ AfterDivEnd
    /\ fnRet.pageComplete
    /\ Len(fnRet.pageRes) = 1
    /\ fnRet.singleResData.name = "ab cd"
    /\ fnRet.singleResData.size = "1 GB"
    /\ fnRet.singleResData.link # "-1"

\* the page indexes requested in the pass n, in the order of the requests
PagesRequested(n) ==
    LET of_pass == SelectSeq(fetch_log, LAMBDA f : f[1] = n)
    IN  [k \in 1..Len(of_pass) |-> of_pass[k][2]]

\* what the source answers to the page index of the pass n
ResponseOf(n, index) ==
    PageResponse(site, n, PassQuery(engine, decoded_what, n), index)

\* the results the page index of the pass n hands to pass_torrents: none when
\* the fetch raised
ResultsOfPage(n, index) ==
    LET resp == ResponseOf(n, index)
    IN  IF resp.kind = "raise" THEN <<>> ELSE ParseRows(engine, cat, resp.rows)

\* the page was fetched and parsed, and held fewer than 20 results
ShortPage(n, index) ==
    /\ ResponseOf(n, index).kind # "raise"
    /\ Len(ResultsOfPage(n, index)) < 20

\* the pass n is over: its results are collected
PassOver(n) == Len(pass_results) >= n

\* the requests of the pass n so far are in order, and its collected results
\* are those of its pages that did not raise
PaginationOf(n) ==
    LET pages == PagesRequested(n)
        short == [k \in 1..Len(pages) |-> ShortPage(n, pages[k])]
    IN  /\ Len(pages) <= 3
        /\ \A k \in 1..Len(pages) : pages[k] = k - 1
        /\ \A k \in 1..Len(pages) : k < Len(pages) => ~short[k]
        /\ PassOver(n) /\ pages # <<>> =>
               /\ Len(pages) = 3 \/ short[Len(pages)]
               /\ pass_results[n] =
                      Concat([k \in 1..Len(pages) |-> ResultsOfPage(n, pages[k])])

\* while the passes run and when they are over, the requests are in order
PaginationInOrder ==
    engine = "torrentproject" /\ pc \in {"pass", "loop", "merge"} =>
        \A n \in 1..3 : PaginationOf(n)

\* behind the passes nothing is requested or collected any more
PaginationOver ==
    engine = "torrentproject" /\ pc \in {"merge", "resolve", "done"} =>
        /\ fetch_log' = fetch_log
        /\ pass_results' = pass_results

\* C28: torrentproject requests the pages of a pass one at a time in
\* increasing index order from 0, at most 3 of them; behind a page that parsed
\* with fewer than 20 results no page of the pass is requested; a page whose
\* fetch raised contributes no results and the next page is still requested.
C28_TorrentprojectPagination ==
    /\ []PaginationInOrder
    /\ [][PaginationOver]_vars

\* C28's case: a pass whose page 0 raised, whose page 1 was requested and
\* ended the pass with its results, and a pass of three pages that all raised
\* is reached on the site that is down
C28_Witness ==
    /\ engine = "torrentproject"
    /\ site = "flaky"
    /\ PassOver(1)
    /\ PagesRequested(1) = <<0, 1>>
    /\ ResponseOf(1, 0).kind = "raise"
    /\ ShortPage(1, 1)

\* search() has returned
Returned == pc = "done"

\* every selected candidate was submitted once, its task is over, and the
\* records printed are those of the candidates whose resolution found a link
AllResolved ==
    /\ Len(task) = Len(torrents_to_fetch)
    /\ \A i \in 1..Len(task) : task[i] = "done"
    /\ Len(emitted) =
           Cardinality({i \in 1..Len(torrents_to_fetch) :
                           EmittedFor(engine, torrents_to_fetch[i]) # <<>>})
    /\ \A i \in 1..Len(torrents_to_fetch) :
           LET printed == EmittedFor(engine, torrents_to_fetch[i])
           IN  printed # <<>> => \E k \in 1..Len(emitted) : emitted[k] = printed[1]

\* search() is over: it has returned or an exception has left it; these are
\* the states no step of search() leaves, and every run reaches one of them
\* once each of its fetches has come back
SearchOver == pc \in {"done", "raised"}

\* C29: when every page fetch and every detail-page fetch returns or fails,
\* search returns, and by then every selected candidate has been submitted for
\* link resolution exactly once and has been emitted or dropped: a search that
\* is over has returned, with no candidate pending.
C29_SearchReturnsAllResolved ==
    engine \in HtmlEngines /\ SearchOver => Returned /\ AllResolved

\* the part of C29 that the code keeps: at the return nothing is pending
AtReturnAllResolved == engine \in HtmlEngines /\ Returned => AllResolved

\* the results of the pass n with its pages collected in index order
PassInPageOrder(n) ==
    IF pass_results[n] = <<>> THEN <<>>
    ELSE LET count == Cardinality(PagesOf(engine, cat))
         IN  Concat([k \in 1..count |->
                       ParsePage(engine, cat,
                                 PageResponse(site, n,
                                              PassQuery(engine, decoded_what, n),
                                              k - 1)).torrents])

\* the candidates search() selects when every pass collects its pages in
\* index order
SelectedInPageOrder ==
    LET all_results == Concat([n \in 1..Len(pass_results) |-> PassInPageOrder(n)])
        sorted == SortCandidates(
                      ScoreCandidates(engine, Deduplicate(engine, all_results),
                                      search_keywords))
    IN  TorrentsToFetch(engine, sorted)

\* the candidates of seq, by their detail links
DescLinksOf(seq) == {seq[i].desc_link : i \in 1..Len(seq)}

\* the resolution tasks have just been submitted
JustSelected ==
    /\ pc = "resolve"
    /\ emitted = <<>>
    /\ \A i \in 1..Len(task) : task[i] # "done"

\* C30: for fixed page contents the set of candidates selected for link
\* resolution is the same under every completion order of the page fetches of
\* a pass, also when lower-tier candidates tie on (score, seeds) at the
\* safety-net cut-off: it is the set selected when the pages complete in
\* index order.
C30_SelectionIndependentOfTiming ==
    engine \in PoolEngines /\ JustSelected =>
        DescLinksOf(torrents_to_fetch) = DescLinksOf(SelectedInPageOrder)

====
